---- MODULE Spec2Model ----
(***************************************************************************)
(* Joke feed backend: the user-preference store (favorites, like_history,  *)
(* dislike_history), the joke collection, and the get_jokes feed composer  *)
(* with its direct-serve, backfill and fallback paths.                     *)
(*                                                                         *)
(* Every store access (document get, query, set, update) is one atomic     *)
(* step; a request is a sequence of such steps and the steps of different  *)
(* requests interleave.  Computation that touches no shared state is       *)
(* folded into the store step that precedes it.                            *)
(***************************************************************************)
EXTENDS Integers, Sequences, FiniteSets, Bags, TLC

(***************************************************************************)
(* Bounds of the model                                                     *)
(***************************************************************************)
NStore     == 11   \* joke documents in the store at start
NProcs     == 2    \* requests in one run, all of which can be in flight together
MaxGenLen  == 2    \* longest candidate list the generative provider returns

(***************************************************************************)
(* Program constants                                                       *)
(***************************************************************************)
MinAudioBytes  == 10000  \* audio of this size or less is rejected
DefaultNumJokes == 5    \* num_jokes when missing or not positive
PoolFactor      == 5    \* get_random_jokes(limit = num_jokes * 5)
QueryFactor     == 10   \* query_limit = limit * 10
RatioNum        == 7    \* len(remaining) > 0.7 * len(all_jokes), as 10*r > 7*a
RatioDen        == 10
FallbackCap     == 10   \* remaining_jokes[:10]

Procs      == 1..NProcs
FirstUuid  == NStore + 90               \* uuid.uuid4() draws identifiers new to the store
Users      == {"u1"}
NoCred     == "none"                    \* no (or an invalid) bearer credential
Principals == {"u1", "u2"}              \* authenticated principals
ActJokes   == {1, 2, 3}                 \* jokes the preference requests act on
FeedActJokes == {2}                     \* ... alongside a get_jokes request
FeedProcs  == {1}                       \* the request that is a get_jokes request

Max(a, b) == IF a >= b THEN a ELSE b
Min(a, b) == IF a <= b THEN a ELSE b
Range(s)  == {s[i] : i \in DOMAIN s}
NoDup(s)  == \A i, k \in DOMAIN s : i # k => s[i] # s[k]

(***************************************************************************)
(* Strings.  str.strip() and str.lower() on the strings the model uses.    *)
(***************************************************************************)
Strip(s) ==
    CASE s = " "        -> ""
      [] s = " School " -> "School"
      [] s = " Ha "     -> "Ha"
      [] OTHER          -> s

Lower(s) ==
    CASE s = "ALL"      -> "all"
      [] s = "School"   -> "school"
      [] s = " School " -> " school "
      [] s = "Ha"       -> "ha"
      [] s = " Ha "     -> " ha "
      [] OTHER          -> s

(***************************************************************************)
(* Python list operations                                                  *)
(***************************************************************************)
\* list.append(x)
ListAppend(l, x) == Append(l, x)

\* list.remove(x): drops the first occurrence of x (x is in l)
ListRemove(l, x) ==
    LET k == CHOOSE i \in DOMAIN l : l[i] = x /\ \A m \in 1..(i - 1) : l[m] # x
    IN  SubSeq(l, 1, k - 1) \o SubSeq(l, k + 1, Len(l))

\* l[:k]
Slice(l, k) == SubSeq(l, 1, Min(k, Len(l)))

(***************************************************************************)
(* Documents                                                               *)
(***************************************************************************)
NoUserDoc ==
    [exists |-> FALSE, favorites |-> <<>>, like_history |-> <<>>,
     dislike_history |-> <<>>, creation_history |-> <<>>, joke_jar |-> <<>>,
     voices |-> <<>>]

\* the user_data dictionary the handlers set() when the document is absent
NewUserDoc(fav, liked, disliked) ==
    [exists |-> TRUE, favorites |-> fav, like_history |-> liked,
     dislike_history |-> disliked, creation_history |-> <<>>, joke_jar |-> <<>>,
     voices |-> <<>>]

\* the joke documents present at start; joke 6 (and 12, ...) is a legacy row
\* without random_val; random_val is in hundredths
StoreScenarios(i) ==
    CASE i % 4 = 0 -> <<>>
      [] i % 4 = 1 -> <<"school">>
      [] i % 4 = 2 -> <<"School", "family">>
      [] OTHER     -> <<"family">>

StoreAges(i) ==
    CASE i % 3 = 0 -> <<>>
      [] i % 3 = 1 -> <<"5-8">>
      [] OTHER     -> <<"8-12">>

\* jokes 5, 10, ... already have their default audio
StoreAudioUrl(i) == IF i % 5 = 0 THEN "https://x/a.wav" ELSE ""

StoreJoke(i) ==
    [joke_setup |-> i, joke_punchline |-> "ha",
     scenarios |-> StoreScenarios(i), age_range |-> StoreAges(i),
     created_by_customer |-> TRUE, creator_id |-> "u2",
     random_val |-> IF i % 6 = 0 THEN <<>> ELSE <<(i * 37) % 100>>,
     default_audio_url |-> StoreAudioUrl(i), audio_urls |-> {}]

\* a joke_metadata document, and the absent one
NoMetadata ==
    [exists |-> FALSE, liked_times |-> 0, disliked_times |-> 0,
     saved_to_favorite_times |-> 0]

NewMetadata(liked, disliked, saved) ==
    [exists |-> TRUE, liked_times |-> liked, disliked_times |-> disliked,
     saved_to_favorite_times |-> saved]

VARIABLES
    jokes,      \* jokes collection: identifier -> document
    users,      \* users collection: user id -> document (exists = FALSE: absent)
    threads,    \* bag of the _update_counter threads started so far
    tasks,      \* background tasks added by the request handlers, in order
    req,        \* per request: its inputs, its position and its locals
    nextUuid,   \* next identifier uuid.uuid4() or the store hands out
    metadata,   \* joke_metadata collection: joke id -> counters (exists = FALSE: absent)
    bucket,     \* object storage: the file paths uploaded so far
    joke_audios,\* joke_audios collection: joke id -> audio record
    log,        \* preference calls that reached the service: <<user, op, joke>>
    voices      \* voices collection: the voice documents, one per voice_id

vars == <<jokes, users, threads, tasks, req, nextUuid, metadata, bucket,
         joke_audios, log, voices>>

NoResp == [status |-> 0, jokes |-> <<>>, path |-> "none", likedIdx |-> 0,
           success |-> FALSE, genFailed |-> FALSE, audio_url |-> ""]

Idle ==
    [op |-> "idle", pc |-> "idle", user |-> "u1", cred |-> NoCred, joke |-> 0,
     snap |-> NoUserDoc, num_jokes |-> <<>>, age_range |-> "", scenario |-> "",
     all_jokes |-> <<>>, liked_jokes |-> <<>>, genCalls |-> 0,
     synth |-> <<>>, limit |-> 0, threshold |-> 0, direction |-> TRUE,
     resp |-> NoResp]

Respond(r, st, ok) ==
    [r EXCEPT !.pc = "done", !.resp = [NoResp EXCEPT !.status = st, !.success = ok]]

(***************************************************************************)
(* FirebaseService helpers                                                 *)
(***************************************************************************)
\* joke_id_exists answering True for every identifier
joke_id_exists_Always(joke_id) == TRUE

\* joke_id_exists
joke_id_exists(joke_id) == joke_id \in DOMAIN jokes

\* _update_joke_metadata_counter: starts a daemon thread and returns; the
\* thread has yet to get() the metadata document
StartCounterThread(bag, joke_id, field, increment) ==
    bag (+) SetToBag({[joke_id |-> joke_id, field |-> field, increment |-> increment,
                       pc |-> "get", exists |-> FALSE, current_value |-> 0]})

(***************************************************************************)
(* Preference routes: add_to_favorite_jokes, add_to_user_liked_history,    *)
(* add_to_user_disliked_history, delete_favorite_jokes                      *)
(***************************************************************************)
PrefOps == {"favorite", "unfavorite", "like", "dislike"}

\* route prologue: verify_token (401), own-account check (403),
\* joke_id_exists (404); then the service call starts
PrefStart(p, o, u, c, j) ==
    /\ req[p].op = "idle"
    /\ LET r == [Idle EXCEPT !.op = o, !.user = u, !.cred = c, !.joke = j]
       IN  IF c = NoCred THEN
               /\ req' = [req EXCEPT ![p] = Respond(r, 401, FALSE)]
               /\ log' = log
           ELSE IF u # c THEN
               /\ req' = [req EXCEPT ![p] = Respond(r, 403, FALSE)]
               /\ log' = log
           ELSE IF ~joke_id_exists(j) THEN
               /\ req' = [req EXCEPT ![p] = Respond(r, 404, FALSE)]
               /\ log' = log
           ELSE
               /\ req' = [req EXCEPT ![p] = [r EXCEPT !.pc = "read"]]
               /\ log' = log \cup {<<u, o, j>>}
    /\ UNCHANGED <<voices, metadata, bucket, joke_audios, jokes, users, threads, tasks, nextUuid>>

\* what the call decides from the document it read: TRUE when it goes on to
\* write, FALSE when it returns False without writing
WillWrite(o, doc, j) ==
    CASE o = "favorite" -> ~doc.exists \/ j \notin Range(doc.favorites)
      [] o = "unfavorite" -> doc.exists /\ j \in Range(doc.favorites)
      [] o = "like"     -> \/ ~doc.exists
                           \/ j \notin Range(doc.like_history)
                           \/ j \in Range(doc.dislike_history)
      [] OTHER          -> TRUE

\* user_doc = user_ref.get(); a call that has nothing to write returns here
PrefRead(p) ==
    /\ req[p].op \in PrefOps
    /\ req[p].pc = "read"
    /\ LET r == req[p]
           doc == users[r.user]
       IN  req' = [req EXCEPT ![p] =
                     IF WillWrite(r.op, doc, r.joke)
                     THEN [r EXCEPT !.snap = doc, !.pc = "write"]
                     ELSE [Respond(r, 200, FALSE) EXCEPT !.snap = doc]]
    /\ UNCHANGED <<voices, metadata, bucket, joke_audios, jokes, users, threads, tasks, nextUuid, log>>

\* add_to_favorite_jokes: set() of a new document, or update({'favorites'})
add_to_favorite_jokes(doc, snap, j) ==
    IF ~snap.exists
    THEN NewUserDoc(<<j>>, <<>>, <<>>)
    ELSE [doc EXCEPT !.favorites = ListAppend(snap.favorites, j)]

\* delete_favorite_jokes: update({'favorites'}) without the joke
delete_favorite_jokes(doc, snap, j) ==
    [doc EXCEPT !.favorites = ListRemove(snap.favorites, j)]

\* mutant: the like leaves the joke in dislike_history
add_to_user_liked_history_NoEvict(doc, snap, j) ==
    IF ~snap.exists
    THEN NewUserDoc(<<>>, <<j>>, <<>>)
    ELSE [doc EXCEPT
            !.like_history =
                IF j \notin Range(snap.like_history)
                THEN ListAppend(snap.like_history, j) ELSE snap.like_history]

\* add_to_user_liked_history: set() of a new document, or one update() of
\* like_history and dislike_history
add_to_user_liked_history(doc, snap, j) ==
    IF ~snap.exists
    THEN NewUserDoc(<<>>, <<j>>, <<>>)
    ELSE [doc EXCEPT
            !.like_history =
                IF j \notin Range(snap.like_history)
                THEN ListAppend(snap.like_history, j) ELSE snap.like_history,
            !.dislike_history =
                IF j \in Range(snap.dislike_history)
                THEN ListRemove(snap.dislike_history, j) ELSE snap.dislike_history]

\* add_to_user_disliked_history: set() of a new document, or one update() of
\* like_history and dislike_history
add_to_user_disliked_history(doc, snap, j) ==
    IF ~snap.exists
    THEN NewUserDoc(<<>>, <<>>, <<j>>)
    ELSE [doc EXCEPT
            !.like_history =
                IF j \in Range(snap.like_history)
                THEN ListRemove(snap.like_history, j) ELSE snap.like_history,
            !.dislike_history =
                IF j \notin Range(snap.dislike_history)
                THEN ListAppend(snap.dislike_history, j) ELSE snap.dislike_history]

\* the counter threads each call starts after its write
PrefThreads(bag, o, snap, j) ==
    CASE o = "favorite" -> StartCounterThread(bag, j, "saved_to_favorite_times", 1)
      [] o = "unfavorite" -> StartCounterThread(bag, j, "saved_to_favorite_times", -1)
      [] o = "like" ->
            IF snap.exists /\ j \in Range(snap.dislike_history)
            THEN StartCounterThread(StartCounterThread(bag, j, "liked_times", 1),
                                    j, "disliked_times", -1)
            ELSE StartCounterThread(bag, j, "liked_times", 1)
      [] OTHER ->
            IF snap.exists /\ j \in Range(snap.like_history)
            THEN StartCounterThread(StartCounterThread(bag, j, "disliked_times", 1),
                                    j, "liked_times", -1)
            ELSE StartCounterThread(bag, j, "disliked_times", 1)

\* user_ref.set(...) / user_ref.update(...), the counter threads, the response
PrefWrite(p) ==
    /\ req[p].op \in PrefOps
    /\ req[p].pc = "write"
    /\ LET r == req[p]
           doc == users[r.user]
           new == CASE r.op = "favorite" -> add_to_favorite_jokes(doc, r.snap, r.joke)
                    [] r.op = "unfavorite" -> delete_favorite_jokes(doc, r.snap, r.joke)
                    [] r.op = "like"     -> add_to_user_liked_history(doc, r.snap, r.joke)
                    [] OTHER             -> add_to_user_disliked_history(doc, r.snap, r.joke)
       IN  /\ users' = [users EXCEPT ![r.user] = new]
           /\ threads' = PrefThreads(threads, r.op, r.snap, r.joke)
           /\ req' = [req EXCEPT ![p] = Respond(r, 200, TRUE)]
    /\ UNCHANGED <<voices, metadata, bucket, joke_audios, jokes, tasks, nextUuid, log>>

(***************************************************************************)
(* Specification of the preference requests alone                          *)
(***************************************************************************)
InitStore ==
    /\ jokes = [i \in 1..NStore |-> StoreJoke(i)]
    /\ threads = EmptyBag
    /\ tasks = <<>>
    /\ req = [p \in Procs |-> Idle]
    /\ nextUuid = FirstUuid
    /\ bucket = {}
    /\ joke_audios = {}
    /\ log = {}
    /\ voices = {}

\* the number of users that hold joke j in list f
Holders(j, f) == Cardinality({u \in Users : j \in Range(users[u][f])})

\* the counters the updates applied so far have left for the user documents
\* at start; no document for a joke nobody has rated
SettledMetadata(j) ==
    IF Holders(j, "like_history") + Holders(j, "dislike_history")
         + Holders(j, "favorites") = 0
    THEN NoMetadata
    ELSE NewMetadata(Holders(j, "like_history"), Holders(j, "dislike_history"),
                     Holders(j, "favorites"))

InitMetadata == metadata = [j \in 1..NStore |-> SettledMetadata(j)]

\* user documents the runs start from: the absent document and documents
\* that earlier preference requests leave behind
PrefUserDocs ==
    {NoUserDoc,
     NewUserDoc(<<>>, <<1>>, <<2>>),
     NewUserDoc(<<3>>, <<2, 3>>, <<1>>)}

InitPrefs ==
    /\ InitStore
    /\ users \in [Users -> PrefUserDocs]
    /\ InitMetadata

PrefRequest(p) ==
    \E o \in PrefOps, u \in Users, c \in {"u1"}, j \in ActJokes :
        PrefStart(p, o, u, c, j)

NextPrefs ==
    \E p \in Procs :
        \/ PrefRequest(p)
        \/ PrefRead(p)
        \/ PrefWrite(p)

SpecPrefs == InitPrefs /\ [][NextPrefs]_vars

(***************************************************************************)
(* get_random_jokes and the other reads of the feed                        *)
(***************************************************************************)
\* the JokeResponse built from a joke document
JokeResponse(id) ==
    [joke_id |-> id, joke_setup |-> jokes[id].joke_setup,
     joke_punchline |-> jokes[id].joke_punchline,
     scenarios |-> jokes[id].scenarios, age_range |-> jokes[id].age_range,
     created_by_customer |-> jokes[id].created_by_customer,
     creator_id |-> jokes[id].creator_id, random_val |-> jokes[id].random_val]

\* mutant: the order is ascending whatever the direction
Before_Ascending(x, y, asc) ==
    LET rx == jokes[x].random_val[1]
        ry == jokes[y].random_val[1]
    IN  rx < ry \/ (rx = ry /\ x <= y)

\* order_by('random_val', direction): ascending when asc, else descending;
\* equal values are ordered by document identifier
Before(x, y, asc) ==
    LET rx == jokes[x].random_val[1]
        ry == jokes[y].random_val[1]
    IN  IF asc THEN rx < ry \/ (rx = ry /\ x <= y)
               ELSE rx > ry \/ (rx = ry /\ x >= y)

RECURSIVE OrderBy(_, _)
OrderBy(S, asc) ==
    IF S = {} THEN <<>>
    ELSE LET x == CHOOSE x \in S : \A y \in S : Before(x, y, asc)
         IN  <<x>> \o OrderBy(S \ {x}, asc)

\* mutant: the scenario filter is not applied
scenario_match_Unfiltered(scenario, joke_scenarios) == TRUE

\* scenario_match of get_random_jokes
scenario_match(scenario, joke_scenarios) ==
    IF scenario # "" /\ Strip(scenario) # ""
    THEN LET scenario_lower == Lower(Strip(scenario))
         IN  IF scenario_lower # "all"
             THEN \/ \E i \in DOMAIN joke_scenarios :
                        Lower(joke_scenarios[i]) = scenario_lower
                  \/ Len(joke_scenarios) = 0
             ELSE TRUE
    ELSE TRUE

\* mutant: the age filter is not applied
age_match_Unfiltered(age_range, joke_age_ranges) == TRUE

\* age_match of get_random_jokes
age_match(age_range, joke_age_ranges) ==
    IF age_range # "" /\ Strip(age_range) # ""
    THEN LET age_range_lower == Lower(Strip(age_range))
         IN  IF age_range_lower # "all"
             THEN \/ \E i \in DOMAIN joke_age_ranges :
                        Lower(joke_age_ranges[i]) = age_range_lower
                  \/ Len(joke_age_ranges) = 0
             ELSE TRUE
    ELSE TRUE

\* get_random_jokes(limit, age_range, scenario) for the threshold and the
\* direction it drew
get_random_jokes(limit, age_range, scenario, threshold, direction) ==
    LET side == {i \in DOMAIN jokes :
                    /\ jokes[i].random_val # <<>>
                    /\ IF direction THEN jokes[i].random_val[1] >= threshold
                                    ELSE jokes[i].random_val[1] <= threshold}
        docs == Slice(OrderBy(side, direction), limit * QueryFactor)
        found == [i \in DOMAIN docs |-> JokeResponse(docs[i])]
        Match(jk) == scenario_match(scenario, jk.scenarios)
                     /\ age_match(age_range, jk.age_range)
    IN  Slice(SelectSeq(found, Match), limit)

\* mutant: the disliked jokes are not excluded
excluded_joke_ids_NoDisliked(doc) ==
    Range(doc.favorites) \cup Range(doc.like_history)

\* mutant: the jokes of joke_jar are excluded as well
excluded_joke_ids_WithJokeJar(doc) ==
    Range(doc.favorites) \cup Range(doc.like_history)
        \cup Range(doc.dislike_history) \cup Range(doc.joke_jar)

\* excluded_joke_ids of get_jokes, from the document get_user_joke_ids read
excluded_joke_ids(doc) ==
    Range(doc.favorites) \cup Range(doc.like_history) \cup Range(doc.dislike_history)

\* num_jokes = request.num_jokes if request.num_jokes and request.num_jokes > 0 else 5
NumJokes(num_jokes) ==
    IF num_jokes # <<>> /\ num_jokes[1] # 0 /\ num_jokes[1] > 0
    THEN num_jokes[1] ELSE DefaultNumJokes

\* remaining_jokes of get_jokes
remaining_jokes(all_jokes, doc) ==
    LET Fresh(jk) == jk.joke_id \notin excluded_joke_ids(doc)
    IN  SelectSeq(all_jokes, Fresh)

\* mutant: the ratio test is 0.9 instead of 0.7
Sufficient_Ratio90(all_jokes, remaining, n) ==
    /\ Len(all_jokes) > 0
    /\ 10 * Len(remaining) > 9 * Len(all_jokes)
    /\ Len(remaining) > Max(0, n - 1)

\* mutant: the ratio test admits equality
Sufficient_AtLeast(all_jokes, remaining, n) ==
    /\ Len(all_jokes) > 0
    /\ RatioDen * Len(remaining) >= RatioNum * Len(all_jokes)
    /\ Len(remaining) > Max(0, n - 1)

\* the condition of the direct-serve branch; 0.7 * len(all_jokes) is exact
\* in integers for the pool sizes of the model (it first differs from the
\* floating-point product at len(all_jokes) = 90)
Sufficient(all_jokes, remaining, n) ==
    /\ Len(all_jokes) > 0
    /\ RatioDen * Len(remaining) > RatioNum * Len(all_jokes)
    /\ Len(remaining) > Max(0, n - 1)

\* the elements of s at the positions in S, in the order of s
RECURSIVE PickFrom(_, _, _)
PickFrom(s, S, i) ==
    IF i > Len(s) THEN <<>>
    ELSE (IF i \in S THEN <<s[i]>> ELSE <<>>) \o PickFrom(s, S, i + 1)

(***************************************************************************)
(* get_jokes                                                               *)
(***************************************************************************)
NumJokesInputs == {<<>>, <<0>>, <<1>>, <<2>>}
AgeInputs      == {"", "5-8"}
ScenarioInputs == {"", "ALL", " School "}
Thresholds     == {0, 40, 99}           \* random.random() in [0, 1), in hundredths

\* mutant: the user's lists are not read before the pool is fetched
GetJokesStart_NoExclusion(p, u, c, nj, age, sc) ==
    /\ req[p].op = "idle"
    /\ LET r == [Idle EXCEPT !.op = "get_jokes", !.user = u, !.cred = c,
                             !.num_jokes = nj, !.age_range = age, !.scenario = sc]
       IN  req' = [req EXCEPT ![p] =
                     IF c # NoCred /\ u # c
                     THEN Respond(r, 403, FALSE)
                     ELSE [r EXCEPT !.pc = "fetch"]]
    /\ UNCHANGED <<voices, metadata, bucket, joke_audios, jokes, users, threads, tasks, nextUuid, log>>

\* own-account check (403) and get_user_joke_ids
GetJokesStart(p, u, c, nj, age, sc) ==
    /\ req[p].op = "idle"
    /\ LET r == [Idle EXCEPT !.op = "get_jokes", !.user = u, !.cred = c,
                             !.num_jokes = nj, !.age_range = age, !.scenario = sc]
       IN  req' = [req EXCEPT ![p] =
                     IF c # NoCred /\ u # c
                     THEN Respond(r, 403, FALSE)
                     ELSE [r EXCEPT !.snap = users[u], !.pc = "fetch"]]
    /\ UNCHANGED <<voices, metadata, bucket, joke_audios, jokes, users, threads, tasks, nextUuid, log>>

\* all_jokes = get_random_jokes(limit = num_jokes * 5, ...)
GetJokesFetch(p, threshold, direction) ==
    /\ req[p].op = "get_jokes"
    /\ req[p].pc = "fetch"
    /\ LET r == req[p]
           n == NumJokes(r.num_jokes)
       IN  req' = [req EXCEPT ![p] =
                     [r EXCEPT !.pc = "liked",
                               !.all_jokes = get_random_jokes(n * PoolFactor,
                                   r.age_range, r.scenario, threshold, direction)]]
    /\ UNCHANGED <<voices, metadata, bucket, joke_audios, jokes, users, threads, tasks, nextUuid, log>>

\* get_random_liked_jokes(user_id, limit), limit = 1: the result for the
\* identifier random.sample drew, empty when the user has no liked joke or
\* the identifier does not resolve
get_random_liked_jokes(doc, pick) ==
    IF doc.like_history = <<>> THEN <<>>
    ELSE LET joke_id == doc.like_history[pick]
         IN  IF joke_id_exists(joke_id) THEN <<JokeResponse(joke_id)>> ELSE <<>>

\* liked_jokes = get_random_liked_jokes(user_id, limit=1): a second read of
\* the user document
GetJokesLiked(p) ==
    /\ req[p].op = "get_jokes"
    /\ req[p].pc = "liked"
    /\ LET r == req[p]
           doc == users[r.user]
       IN  \E pick \in IF doc.like_history = <<>> THEN {1} ELSE DOMAIN doc.like_history :
               req' = [req EXCEPT ![p] =
                         [r EXCEPT !.pc = "decide",
                                   !.liked_jokes = get_random_liked_jokes(doc, pick)]]
    /\ UNCHANGED <<voices, metadata, bucket, joke_audios, jokes, users, threads, tasks, nextUuid, log>>

\* the direct-serve branch: the response for the set S random.sample drew
\* and the set T the top-up loop drew (jokes are listed in pool order)
DirectServe(r, S, T) ==
    LET n == NumJokes(r.num_jokes)
        remaining == remaining_jokes(r.all_jokes, r.snap)
        selected_remaining == PickFrom(remaining, S, 1)
        selected_liked == IF Len(r.liked_jokes) > 0 THEN <<r.liked_jokes[1]>> ELSE <<>>
        result_jokes == selected_remaining \o selected_liked \o PickFrom(remaining, T, 1)
    IN  [NoResp EXCEPT !.status = 200, !.success = TRUE, !.path = "direct",
                       !.jokes = Slice(result_jokes, n),
                       !.likedIdx = IF Len(selected_liked) > 0
                                    THEN Len(selected_remaining) + 1 ELSE 0]

\* mutant: the top-up loop is missing
DirectDraws_NoTopUp(r) ==
    LET n == NumJokes(r.num_jokes)
        remaining == remaining_jokes(r.all_jokes, r.snap)
        num_from_remaining == Max(0, n - 1)
        k == IF num_from_remaining > 0
             THEN Min(num_from_remaining, Len(remaining)) ELSE 0
    IN  {st \in (SUBSET DOMAIN remaining) \X {{}} : Cardinality(st[1]) = k}

\* the sets the direct-serve branch can draw: S of size min(n - 1,
\* len(remaining)); T, disjoint from S, filling the response up to n
DirectDraws(r) ==
    LET n == NumJokes(r.num_jokes)
        remaining == remaining_jokes(r.all_jokes, r.snap)
        num_from_remaining == Max(0, n - 1)
        k == IF num_from_remaining > 0
             THEN Min(num_from_remaining, Len(remaining)) ELSE 0
        have == k + (IF Len(r.liked_jokes) > 0 THEN 1 ELSE 0)
    IN  {st \in (SUBSET DOMAIN remaining) \X (SUBSET DOMAIN remaining) :
            /\ Cardinality(st[1]) = k
            /\ st[2] \cap st[1] = {}
            /\ Cardinality(st[2]) = Min(Max(0, n - have), Len(remaining) - k)}

\* what GeminiService.generate_jokes can return
GenCandidates ==
    {[joke_setup |-> 201, joke_punchline |-> "ha"],
     [joke_setup |-> 1,   joke_punchline |-> " Ha "]}

GenOutputs == UNION {[1..k -> GenCandidates] : k \in 0..MaxGenLen}

\* mutant: the generated joke is marked as created by a customer
GeminiJoke_ByCustomer(r, gemini_joke, joke_id) ==
    [joke_id |-> joke_id, joke_setup |-> gemini_joke.joke_setup,
     joke_punchline |-> gemini_joke.joke_punchline,
     scenarios |-> IF r.scenario # "" THEN <<r.scenario>> ELSE <<>>,
     age_range |-> IF r.age_range # "" THEN <<r.age_range>> ELSE <<>>,
     created_by_customer |-> TRUE, creator_id |-> "gemini",
     random_val |-> <<>>]

\* the JokeResponse of a generated joke
GeminiJoke(r, gemini_joke, joke_id) ==
    [joke_id |-> joke_id, joke_setup |-> gemini_joke.joke_setup,
     joke_punchline |-> gemini_joke.joke_punchline,
     scenarios |-> IF r.scenario # "" THEN <<r.scenario>> ELSE <<>>,
     age_range |-> IF r.age_range # "" THEN <<r.age_range>> ELSE <<>>,
     created_by_customer |-> FALSE, creator_id |-> "gemini",
     random_val |-> <<>>]

\* the backfill branch when generation returned gemini_jokes
Backfill(r, gemini_jokes, uuid) ==
    [NoResp EXCEPT !.status = 200, !.success = TRUE, !.path = "backfill",
                   !.jokes = [i \in DOMAIN gemini_jokes |->
                                GeminiJoke(r, gemini_jokes[i], uuid + i - 1)]]

\* jokes_to_save of the backfill branch
jokes_to_save(r, gemini_jokes, uuid) ==
    [i \in DOMAIN gemini_jokes |->
        [joke_id |-> uuid + i - 1, joke_setup |-> gemini_jokes[i].joke_setup,
         joke_punchline |-> gemini_jokes[i].joke_punchline,
         scenarios |-> IF r.scenario # "" THEN <<r.scenario>> ELSE <<>>,
         age_range |-> IF r.age_range # "" THEN <<r.age_range>> ELSE <<>>]]

\* mutant: a failed generation is always an error
Fallback_AlwaysError(r) ==
    [NoResp EXCEPT !.status = 500, !.path = "fallback", !.genFailed = TRUE]

\* the except branch: generation failed
Fallback(r) ==
    LET remaining == remaining_jokes(r.all_jokes, r.snap)
    IN  IF remaining # <<>>
        THEN [NoResp EXCEPT !.status = 200, !.success = TRUE, !.path = "fallback",
                            !.genFailed = TRUE,
                            !.jokes = Slice(remaining, FallbackCap)]
        ELSE [NoResp EXCEPT !.status = 500, !.path = "fallback", !.genFailed = TRUE]

\* mutant: the direct-serve branch schedules a save of what it serves
GetJokesDecide_SaveOnDirect(p) ==
    /\ req[p].op = "get_jokes"
    /\ req[p].pc = "decide"
    /\ LET r == req[p]
           n == NumJokes(r.num_jokes)
           remaining == remaining_jokes(r.all_jokes, r.snap)
       IN  IF Sufficient(r.all_jokes, remaining, n)
           THEN /\ \E st \in DirectDraws(r) :
                      req' = [req EXCEPT ![p] =
                                [r EXCEPT !.pc = "done",
                                          !.resp = DirectServe(r, st[1], st[2])]]
                /\ tasks' = Append(tasks,
                               [fn |-> "save_jokes_async", jokes |-> <<>>,
                                creator_id |-> "gemini", owner |-> p,
                                pc |-> "query", idx |-> 1, found |-> <<>>,
                                saved_count |-> 0, failed |-> {}])
                /\ UNCHANGED nextUuid
           ELSE \/ /\ req' = [req EXCEPT ![p] =
                                [r EXCEPT !.pc = "done", !.genCalls = 1,
                                          !.resp = Fallback(r)]]
                   /\ UNCHANGED <<tasks, nextUuid>>
                \/ \E g \in GenOutputs :
                      /\ req' = [req EXCEPT ![p] =
                                   [r EXCEPT !.pc = "done", !.genCalls = 1,
                                             !.resp = Backfill(r, g, nextUuid)]]
                      /\ tasks' = Append(tasks,
                                     [fn |-> "save_jokes_async",
                                      jokes |-> jokes_to_save(r, g, nextUuid),
                                      creator_id |-> "gemini",
                                      owner |-> p, pc |-> "query", idx |-> 1,
                                      found |-> <<>>, saved_count |-> 0,
                                      failed |-> {}])
                      /\ nextUuid' = nextUuid + Len(g)
    /\ UNCHANGED <<voices, metadata, bucket, joke_audios, jokes, users, threads, log>>

\* the sufficiency decision and the branch it selects, up to the response
GetJokesDecide(p) ==
    /\ req[p].op = "get_jokes"
    /\ req[p].pc = "decide"
    /\ LET r == req[p]
           n == NumJokes(r.num_jokes)
           remaining == remaining_jokes(r.all_jokes, r.snap)
       IN  IF Sufficient(r.all_jokes, remaining, n)
           THEN /\ \E st \in DirectDraws(r) :
                      req' = [req EXCEPT ![p] =
                                [r EXCEPT !.pc = "done",
                                          !.resp = DirectServe(r, st[1], st[2])]]
                /\ UNCHANGED <<tasks, nextUuid>>
           ELSE \/ /\ req' = [req EXCEPT ![p] =
                                [r EXCEPT !.pc = "done", !.genCalls = 1,
                                          !.resp = Fallback(r)]]
                   /\ UNCHANGED <<tasks, nextUuid>>
                \/ \E g \in GenOutputs :
                      /\ req' = [req EXCEPT ![p] =
                                   [r EXCEPT !.pc = "done", !.genCalls = 1,
                                             !.resp = Backfill(r, g, nextUuid)]]
                      /\ tasks' = Append(tasks,
                                     [fn |-> "save_jokes_async",
                                      jokes |-> jokes_to_save(r, g, nextUuid),
                                      creator_id |-> "gemini",
                                      owner |-> p, pc |-> "query", idx |-> 1,
                                      found |-> <<>>, saved_count |-> 0,
                                      failed |-> {}])
                      /\ nextUuid' = nextUuid + Len(g)
    /\ UNCHANGED <<voices, metadata, bucket, joke_audios, jokes, users, threads, log>>

(***************************************************************************)
(* Specification of one get_jokes request                                  *)
(***************************************************************************)
\* user documents the feed runs start from: states the preference requests
\* lead to
FeedUserDocs ==
    {NoUserDoc,
     NewUserDoc(<<>>, <<>>, <<>>),
     NewUserDoc(<<>>, <<1>>, <<>>),
     NewUserDoc(<<>>, <<1>>, <<4>>),
     NewUserDoc(<<3>>, <<1>>, <<4>>),
     NewUserDoc(<<3, 2>>, <<1>>, <<4>>),
     NewUserDoc(<<2, 3, 5, 7>>, <<1, 8>>, <<4, 9>>)}

InitFeed ==
    /\ InitStore
    /\ users \in [Users -> FeedUserDocs]
    /\ InitMetadata

GetJokesRequest(p) ==
    \E u \in Users, c \in Principals, nj \in NumJokesInputs,
       age \in AgeInputs, sc \in ScenarioInputs :
        GetJokesStart(p, u, c, nj, age, sc)

NextFeed ==
    \E p \in FeedProcs :
        \/ GetJokesRequest(p)
        \/ \E threshold \in Thresholds, direction \in BOOLEAN :
              GetJokesFetch(p, threshold, direction)
        \/ GetJokesLiked(p)
        \/ GetJokesDecide(p)

SpecFeed == InitFeed /\ [][NextFeed]_vars

(***************************************************************************)
(* Specification of one get_jokes request with preference requests of the  *)
(* same user running alongside                                             *)
(***************************************************************************)
RaceNumJokesInputs == {<<1>>, <<2>>}
RaceScenarioInputs == {"", " School "}

RaceUserDocs ==
    {NoUserDoc,
     NewUserDoc(<<>>, <<1>>, <<4>>),
     NewUserDoc(<<3, 2>>, <<1>>, <<4>>),
     NewUserDoc(<<2, 3, 5, 7>>, <<1, 8>>, <<4, 9>>)}

InitRace ==
    /\ InitStore
    /\ users \in [Users -> RaceUserDocs]
    /\ InitMetadata

RaceGetJokesRequest(p) ==
    \E u \in Users, nj \in RaceNumJokesInputs, sc \in RaceScenarioInputs :
        GetJokesStart(p, u, "u1", nj, "", sc)

RacePrefRequest(p) ==
    \E o \in PrefOps, u \in Users, j \in FeedActJokes :
        PrefStart(p, o, u, "u1", j)

NextRace ==
    \E p \in Procs :
        \/ p \in FeedProcs /\ RaceGetJokesRequest(p)
        \/ \E threshold \in Thresholds, direction \in BOOLEAN :
              GetJokesFetch(p, threshold, direction)
        \/ GetJokesLiked(p)
        \/ GetJokesDecide(p)
        \/ p \notin FeedProcs /\ RacePrefRequest(p)
        \/ PrefRead(p)
        \/ PrefWrite(p)

SpecRace == InitRace /\ [][NextRace]_vars

(***************************************************************************)
(* add_joke: POST /jokes, add_to_user_created_jokes                        *)
(***************************************************************************)
\* the JokeCreate bodies of the requests
JokeCreateInputs ==
    {[joke_setup |-> 1,   joke_punchline |-> "ha", scenarios |-> <<"family">>],
     [joke_setup |-> 201, joke_punchline |-> "ha", scenarios |-> <<>>]}

\* random.random() of a new joke document, in hundredths
NewRandomVals == {<<10>>}

\* get_current_user_id (401), then db.collection('jokes').add(joke_data)
AddJokeStart(p, c, joke, rv) ==
    /\ req[p].op = "idle"
    /\ LET r == [Idle EXCEPT !.op = "add_joke", !.user = c, !.cred = c]
       IN  IF c = NoCred
           THEN /\ req' = [req EXCEPT ![p] = Respond(r, 401, FALSE)]
                /\ UNCHANGED <<jokes, nextUuid>>
           ELSE /\ jokes' = jokes @@ (nextUuid :>
                      [joke_setup |-> joke.joke_setup,
                       joke_punchline |-> joke.joke_punchline,
                       scenarios |-> joke.scenarios, age_range |-> <<>>,
                       created_by_customer |-> TRUE, creator_id |-> c,
                       random_val |-> rv,
                       default_audio_url |-> "", audio_urls |-> {}])
                /\ nextUuid' = nextUuid + 1
                /\ req' = [req EXCEPT ![p] = [r EXCEPT !.pc = "user_read",
                                                       !.joke = nextUuid]]
    /\ UNCHANGED <<voices, users, threads, tasks, metadata, bucket, joke_audios, log>>

\* user_doc = user_ref.get(); the identifier is new, so a write follows
AddJokeUserRead(p) ==
    /\ req[p].op = "add_joke"
    /\ req[p].pc = "user_read"
    /\ req' = [req EXCEPT ![p] = [@ EXCEPT !.snap = users[req[p].user],
                                          !.pc = "user_write"]]
    /\ UNCHANGED <<voices, jokes, users, threads, tasks, nextUuid, metadata, bucket,
                   joke_audios, log>>

\* user_ref.set(user_data) / user_ref.update({'creation_history': ...})
AddJokeUserWrite(p) ==
    /\ req[p].op = "add_joke"
    /\ req[p].pc = "user_write"
    /\ LET r == req[p]
       IN  /\ users' = [users EXCEPT ![r.user] =
                 IF ~r.snap.exists
                 THEN [NewUserDoc(<<>>, <<>>, <<>>) EXCEPT
                          !.creation_history = <<r.joke>>]
                 ELSE [@ EXCEPT !.creation_history =
                          ListAppend(r.snap.creation_history, r.joke)]]
           /\ req' = [req EXCEPT ![p] = [r EXCEPT !.pc = "get_all"]]
    /\ UNCHANGED <<voices, jokes, threads, tasks, nextUuid, metadata, bucket,
                   joke_audios, log>>

\* jokes = get_all_jokes(); the created joke is returned, 500 when it is
\* not among them
AddJokeReturn(p) ==
    /\ req[p].op = "add_joke"
    /\ req[p].pc = "get_all"
    /\ LET r == req[p]
       IN  req' = [req EXCEPT ![p] =
                     IF joke_id_exists(r.joke)
                     THEN [Respond(r, 200, TRUE) EXCEPT
                              !.resp.jokes = <<JokeResponse(r.joke)>>]
                     ELSE Respond(r, 500, FALSE)]
    /\ UNCHANGED <<voices, jokes, users, threads, tasks, nextUuid, metadata, bucket,
                   joke_audios, log>>

(***************************************************************************)
(* save_jokes_async, run as a background task after the response           *)
(***************************************************************************)
\* get_joke_doc_by_setup_punchline: the first document of the setup query
\* whose punchline matches ignoring case and surrounding whitespace;
\* <<>> for (None, None)
get_joke_doc_by_setup_punchline(joke_setup, joke_punchline) ==
    LET hits == {id \in DOMAIN jokes :
                    /\ jokes[id].joke_setup = joke_setup
                    /\ Lower(Strip(jokes[id].joke_punchline))
                         = Lower(Strip(joke_punchline))}
    IN  IF hits = {} THEN <<>>
        ELSE LET id == CHOOSE h \in hits : \A k \in hits : h <= k
             IN  <<[id |-> id, scenarios |-> jokes[id].scenarios,
                    age_range |-> jokes[id].age_range]>>

\* list(set): the lists that hold each element of S once, in any order
ListsOf(S) ==
    {l \in [1..Cardinality(S) -> S] : Range(l) = S}

\* mutant: a background task is run as soon as it has been added
TaskReady_Eager(t) == t \in DOMAIN tasks

\* a background task is run once the response of its request has been sent
TaskReady(t) ==
    /\ t \in DOMAIN tasks
    /\ req[tasks[t].owner].pc = "done"

\* one iteration of the loop, up to the duplicate query
SaveQuery(t) ==
    /\ TaskReady(t)
    /\ tasks[t].fn = "save_jokes_async"
    /\ tasks[t].pc = "query"
    /\ tasks[t].idx <= Len(tasks[t].jokes)
    /\ LET joke_data == tasks[t].jokes[tasks[t].idx]
       IN  tasks' = [tasks EXCEPT ![t] =
                       [@ EXCEPT !.pc = "write",
                                 !.found = get_joke_doc_by_setup_punchline(
                                     joke_data.joke_setup, joke_data.joke_punchline)]]
    /\ UNCHANGED <<voices, jokes, users, threads, req, nextUuid, metadata, bucket,
                   joke_audios, log>>

\* mutant: the merge replaces the tags of the existing row by the new ones
MergeTags_Replace(existing, new) == {new}

\* the merged tag list: list(set(existing) | set(new))
MergeTags(existing, new) == ListsOf(Range(existing) \cup Range(new))

\* ... and its write: existing_doc_ref.update of the merged tags, or
\* doc_ref.set of a new document under the identifier handed in
SaveWrite(t) ==
    /\ TaskReady(t)
    /\ tasks[t].fn = "save_jokes_async"
    /\ tasks[t].pc = "write"
    /\ LET task == tasks[t]
           joke_data == task.jokes[task.idx]
       IN  /\ IF task.found # <<>>
              THEN \E sc \in MergeTags(task.found[1].scenarios, joke_data.scenarios),
                      ar \in MergeTags(task.found[1].age_range, joke_data.age_range) :
                       jokes' = [jokes EXCEPT ![task.found[1].id] =
                                   [@ EXCEPT !.scenarios = sc, !.age_range = ar]]
              ELSE \E rv \in NewRandomVals :
                       jokes' = [id \in DOMAIN jokes \cup {joke_data.joke_id} |->
                                   IF id = joke_data.joke_id
                                   THEN [joke_setup |-> joke_data.joke_setup,
                                         joke_punchline |-> joke_data.joke_punchline,
                                         scenarios |-> joke_data.scenarios,
                                         age_range |-> joke_data.age_range,
                                         created_by_customer |-> FALSE,
                                         creator_id |-> task.creator_id,
                                         random_val |-> rv,
                                         default_audio_url |-> "",
                                         audio_urls |-> {}]
                                   ELSE jokes[id]]
           /\ tasks' = [tasks EXCEPT ![t] =
                          [@ EXCEPT !.pc = "query", !.idx = @ + 1, !.found = <<>>,
                                    !.saved_count = @ + 1]]
    /\ UNCHANGED <<voices, users, threads, req, nextUuid, metadata, bucket, joke_audios, log>>

\* mutant: an item that raises ends the loop
AfterError_Abort(task) == Len(task.jokes) + 1

\* except Exception: print(...); continue -- the loop goes on with the next
\* item
AfterError(task) == task.idx + 1

\* a store call of the iteration raises (the duplicate query, the update or
\* the set): nothing is written for the item and saved_count stays; failed
\* records the items that raised
SaveFail(t) ==
    /\ TaskReady(t)
    /\ tasks[t].fn = "save_jokes_async"
    /\ tasks[t].pc \in {"query", "write"}
    /\ tasks[t].idx <= Len(tasks[t].jokes)
    /\ tasks' = [tasks EXCEPT ![t] =
                   [@ EXCEPT !.pc = "query", !.idx = AfterError(tasks[t]),
                             !.found = <<>>, !.failed = @ \cup {tasks[t].idx}]]
    /\ UNCHANGED <<voices, jokes, users, threads, req, nextUuid, metadata, bucket,
                   joke_audios, log>>

\* the task has gone through all its jokes
TaskFinished(t) ==
    /\ t \in DOMAIN tasks
    /\ tasks[t].fn = "save_jokes_async"
    /\ tasks[t].pc = "query"
    /\ tasks[t].idx > Len(tasks[t].jokes)

(***************************************************************************)
(* Specification of the joke-creating operations: one get_jokes request    *)
(* whose generated jokes are saved in the background, and add_joke         *)
(* requests alongside                                                      *)
(***************************************************************************)
SaveNumJokesInputs == {<<1>>}
SaveScenarioInputs == {"", " School "}
SaveThresholds     == {0}

SaveUserDocs ==
    {[NewUserDoc(<<2, 3, 5, 7>>, <<1, 8>>, <<4, 9>>) EXCEPT !.joke_jar = <<11>>]}

InitSave ==
    /\ InitStore
    /\ users \in [Users -> SaveUserDocs]
    /\ InitMetadata

SaveGetJokesRequest(p) ==
    \E u \in Users, nj \in SaveNumJokesInputs, sc \in SaveScenarioInputs :
        GetJokesStart(p, u, "u1", nj, "", sc)

AddJokeRequest(p) ==
    \E c \in {NoCred, "u1"}, joke \in JokeCreateInputs, rv \in NewRandomVals :
        AddJokeStart(p, c, joke, rv)

NextSave ==
    \/ \E p \in Procs :
        \/ p \in FeedProcs /\ SaveGetJokesRequest(p)
        \/ \E threshold \in SaveThresholds, direction \in BOOLEAN :
              GetJokesFetch(p, threshold, direction)
        \/ GetJokesLiked(p)
        \/ GetJokesDecide(p)
        \/ p \notin FeedProcs /\ AddJokeRequest(p)
        \/ AddJokeUserRead(p)
        \/ AddJokeUserWrite(p)
        \/ AddJokeReturn(p)
    \/ \E t \in DOMAIN tasks : SaveQuery(t)
    \/ \E t \in DOMAIN tasks : SaveWrite(t)

SpecSave == InitSave /\ [][NextSave]_vars

(***************************************************************************)
(* _update_counter: the body of a counter thread                           *)
(***************************************************************************)
\* mutant: the new value is not held at zero
new_value_NoFloor(current_value, increment) == current_value + increment

\* new_value = max(0, current_value + increment)
new_value(current_value, increment) == Max(0, current_value + increment)

\* a thread of the bag moves on
StepThread(th, next) == (threads (-) SetToBag({th})) (+) SetToBag({next})

\* metadata_doc = metadata_ref.get()
CounterGet(th) ==
    /\ BagIn(th, threads)
    /\ th.pc = "get"
    /\ threads' = StepThread(th,
           [th EXCEPT !.pc = "write",
                      !.exists = metadata[th.joke_id].exists,
                      !.current_value = metadata[th.joke_id][th.field]])
    /\ UNCHANGED <<voices, jokes, users, tasks, req, nextUuid, metadata, bucket,
                   joke_audios, log>>

\* metadata_ref.update({field: new_value}), or metadata_ref.set of a new
\* document when the get() found none
CounterWrite(th) ==
    /\ BagIn(th, threads)
    /\ th.pc = "write"
    /\ metadata' = [metadata EXCEPT ![th.joke_id] =
           IF th.exists
           THEN [@ EXCEPT ![th.field] = new_value(th.current_value, th.increment)]
           ELSE [NewMetadata(0, 0, 0) EXCEPT ![th.field] = new_value(0, th.increment)]]
    /\ threads' = StepThread(th, [th EXCEPT !.pc = "done"])
    /\ UNCHANGED <<voices, jokes, users, tasks, req, nextUuid, bucket, joke_audios, log>>

(***************************************************************************)
(* Specification of the preference requests with their counter threads     *)
(***************************************************************************)
CounterActJokes == {1}

CounterUserDocs ==
    {NoUserDoc,
     NewUserDoc(<<1>>, <<>>, <<1>>),
     NewUserDoc(<<>>, <<1>>, <<>>)}

\* the counters are settled, or the updates so far have failed and left no
\* metadata document
InitCounters ==
    /\ InitStore
    /\ users \in [Users -> CounterUserDocs]
    /\ \/ InitMetadata
       \/ metadata = [j \in 1..NStore |-> NoMetadata]

CounterPrefRequest(p) ==
    \E o \in PrefOps, u \in Users, j \in CounterActJokes :
        PrefStart(p, o, u, "u1", j)

NextCounters ==
    \/ \E p \in Procs :
        \/ CounterPrefRequest(p)
        \/ PrefRead(p)
        \/ PrefWrite(p)
    \/ \E th \in BagToSet(threads) : CounterGet(th)
    \/ \E th \in BagToSet(threads) : CounterWrite(th)

SpecCounters == InitCounters /\ [][NextCounters]_vars

(***************************************************************************)
(* get_audio_for_joke: GET /jokes/{joke_id}/audio                          *)
(***************************************************************************)
\* mutant: the stored URL is never found
get_default_audio_Miss(joke_id) == ""

\* get_default_audio: the joke's default_audio_url, "" for None
get_default_audio(joke_id) ==
    IF joke_id_exists(joke_id) THEN jokes[joke_id].default_audio_url ELSE ""

\* what the speech provider can answer: an error, a blocked prompt, a
\* response without audio data, or audio of some size in bytes
SynthOutcomes ==
    {[kind |-> "error", size |-> 0], [kind |-> "blocked", size |-> 0],
     [kind |-> "no_audio", size |-> 0],
     [kind |-> "audio", size |-> MinAudioBytes],
     [kind |-> "audio", size |-> MinAudioBytes + 1]}

\* mutant: audio of any size is uploaded
SynthOk_NoMinimum(o) == o.kind = "audio"

\* generate_audio_for_joke goes on to the upload
SynthOk(o) == o.kind = "audio" /\ ~(o.size <= MinAudioBytes)

\* len(_convert_to_wav(audio_data)): the size of the WAV file that wraps
\* size bytes of samples
WavSize(size) == <<"wav", size>>

\* file_path and blob.public_url of the default audio of a joke
AudioPath(joke_id) == <<"jokes_audio", joke_id, "default.wav">>
PublicUrl(joke_id) == <<"https://storage", AudioPath(joke_id)>>

\* the request, up to audio_url = get_default_audio(joke_id)
AudioStart(p, j) ==
    /\ req[p].op = "idle"
    /\ LET r == [Idle EXCEPT !.op = "audio", !.joke = j]
           audio_url == get_default_audio(j)
       IN  req' = [req EXCEPT ![p] =
                     IF audio_url # ""
                     THEN [Respond(r, 200, TRUE) EXCEPT !.resp.path = "cached",
                                                        !.resp.audio_url = audio_url]
                     ELSE [r EXCEPT !.pc = "get_joke"]]
    /\ UNCHANGED <<voices, jokes, users, threads, tasks, nextUuid, metadata, bucket,
                   joke_audios, log>>

\* joke = get_joke_by_id(joke_id), 404 when there is none
AudioGetJoke(p) ==
    /\ req[p].op = "audio"
    /\ req[p].pc = "get_joke"
    /\ req' = [req EXCEPT ![p] =
                 IF joke_id_exists(req[p].joke)
                 THEN [req[p] EXCEPT !.pc = "synth"]
                 ELSE [Respond(req[p], 404, FALSE) EXCEPT !.resp.path = "not_found"]]
    /\ UNCHANGED <<voices, jokes, users, threads, tasks, nextUuid, metadata, bucket,
                   joke_audios, log>>

\* generate_audio_for_joke up to the size test: the provider has answered
\* o; None from it ends the request with 500
AudioSynth(p, o) ==
    /\ req[p].op = "audio"
    /\ req[p].pc = "synth"
    /\ LET r == [req[p] EXCEPT !.genCalls = @ + 1, !.synth = <<o>>]
       IN  req' = [req EXCEPT ![p] =
                     IF SynthOk(o)
                     THEN [r EXCEPT !.pc = "upload"]
                     ELSE [Respond(r, 500, FALSE) EXCEPT !.resp.path = "synth_failed"]]
    /\ UNCHANGED <<voices, jokes, users, threads, tasks, nextUuid, metadata, bucket,
                   joke_audios, log>>

\* save_to_bucket: upload_from_string and make_public, either of which can
\* raise; then background_tasks.add_task(save_audio_url_async, joke_id,
\* audio_url, audio_size, True), where the fourth argument is voice_id
UploadOutcomes == {"ok", "upload_failed", "public_failed"}

AudioUpload(p, outcome) ==
    /\ req[p].op = "audio"
    /\ req[p].pc = "upload"
    /\ LET r == req[p]
       IN  /\ bucket' = IF outcome = "upload_failed" THEN bucket
                        ELSE bucket \cup {AudioPath(r.joke)}
           /\ IF outcome = "ok"
              THEN /\ tasks' = Append(tasks,
                          [fn |-> "save_audio_url_async", owner |-> p, pc |-> "urls",
                           joke_id |-> r.joke, audio_url |-> PublicUrl(r.joke),
                           audio_size |-> WavSize(r.synth[1].size),
                           voice_id |-> "True", is_default |-> TRUE])
                   /\ req' = [req EXCEPT ![p] = [r EXCEPT !.pc = "respond"]]
              ELSE /\ tasks' = tasks
                   /\ req' = [req EXCEPT ![p] =
                                [Respond(r, 500, FALSE) EXCEPT
                                    !.resp.path = "upload_failed"]]
    /\ UNCHANGED <<voices, jokes, users, threads, nextUuid, metadata, joke_audios, log>>

\* return {"audio_url": audio_url, "joke_id": joke_id}
AudioRespond(p) ==
    /\ req[p].op = "audio"
    /\ req[p].pc = "respond"
    /\ req' = [req EXCEPT ![p] =
                 [Respond(req[p], 200, TRUE) EXCEPT
                     !.resp.path = "generated",
                     !.resp.audio_url = PublicUrl(req[p].joke)]]
    /\ UNCHANGED <<voices, jokes, users, threads, tasks, nextUuid, metadata, bucket,
                   joke_audios, log>>

(***************************************************************************)
(* save_audio_url_async, run as a background task after the response       *)
(***************************************************************************)
\* mutant: the task starts as soon as it has been added
AudioTaskReady_Eager(t) == t \in DOMAIN tasks

\* the task of an audio request is run once its response has been sent
AudioTaskReady(t) == TaskReady(t)

\* joke_ref.update({'audio_urls': ArrayUnion([audio_entry])})
AudioSaveUrls(t) ==
    /\ AudioTaskReady(t)
    /\ tasks[t].fn = "save_audio_url_async"
    /\ tasks[t].pc = "urls"
    /\ jokes' = [jokes EXCEPT ![tasks[t].joke_id].audio_urls =
                    @ \cup {[voice_id |-> tasks[t].voice_id,
                             audio_url |-> tasks[t].audio_url]}]
    /\ tasks' = [tasks EXCEPT ![t].pc = "default"]
    /\ UNCHANGED <<voices, users, threads, req, nextUuid, metadata, bucket, joke_audios, log>>

\* a task that never writes default_audio_url
AudioSaveDefault_Skip(t) ==
    /\ t \in DOMAIN tasks
    /\ tasks[t].fn = "save_audio_url_async"
    /\ tasks[t].pc = "default"
    /\ tasks' = [tasks EXCEPT ![t].pc = "record"]
    /\ UNCHANGED <<voices, jokes, users, threads, req, nextUuid, metadata, bucket,
                   joke_audios, log>>

\* if is_default: joke_ref.update({'default_audio_url': audio_url})
AudioSaveDefault(t) ==
    /\ t \in DOMAIN tasks
    /\ tasks[t].fn = "save_audio_url_async"
    /\ tasks[t].pc = "default"
    /\ jokes' = [jokes EXCEPT ![tasks[t].joke_id].default_audio_url =
                    IF tasks[t].is_default THEN tasks[t].audio_url ELSE @]
    /\ tasks' = [tasks EXCEPT ![t].pc = "record"]
    /\ UNCHANGED <<voices, users, threads, req, nextUuid, metadata, bucket, joke_audios, log>>

\* db.collection('joke_audios').document(joke_id).set({...}, merge=True)
AudioSaveRecord(t) ==
    /\ t \in DOMAIN tasks
    /\ tasks[t].fn = "save_audio_url_async"
    /\ tasks[t].pc = "record"
    /\ joke_audios' = {a \in joke_audios : a.joke_id # tasks[t].joke_id}
                         \cup {[joke_id |-> tasks[t].joke_id,
                                audio_url |-> tasks[t].audio_url,
                                audio_size |-> tasks[t].audio_size,
                                voice_id |-> tasks[t].voice_id]}
    /\ tasks' = [tasks EXCEPT ![t].pc = "finished"]
    /\ UNCHANGED <<voices, jokes, users, threads, req, nextUuid, metadata, bucket, log>>

\* a store call of the task raises: except Exception prints the error and
\* the task ends, with the writes made so far left in place
AudioSaveFail(t) ==
    /\ AudioTaskReady(t)
    /\ tasks[t].fn = "save_audio_url_async"
    /\ tasks[t].pc \in {"urls", "default", "record"}
    /\ tasks' = [tasks EXCEPT ![t].pc = "failed"]
    /\ UNCHANGED <<voices, jokes, users, threads, req, nextUuid, metadata, bucket,
                   joke_audios, log>>

(***************************************************************************)
(* Specification of the audio requests                                     *)
(***************************************************************************)
\* a joke without audio, one with its audio, an identifier of no joke
AudioJokes == {1, 5, NStore + 1}

InitAudio ==
    /\ InitStore
    /\ users = [u \in Users |-> NoUserDoc]
    /\ InitMetadata

AudioRequest(p) == \E j \in AudioJokes : AudioStart(p, j)

NextAudio ==
    \/ \E p \in Procs :
        \/ AudioRequest(p)
        \/ AudioGetJoke(p)
        \/ \E o \in SynthOutcomes : AudioSynth(p, o)
        \/ \E outcome \in UploadOutcomes : AudioUpload(p, outcome)
        \/ AudioRespond(p)
    \/ \E t \in DOMAIN tasks : AudioSaveUrls(t)
    \/ \E t \in DOMAIN tasks : AudioSaveDefault(t)
    \/ \E t \in DOMAIN tasks : AudioSaveRecord(t)

SpecAudio == InitAudio /\ [][NextAudio]_vars

(***************************************************************************)
(* The other writers of the user document: delete_user_created_joke,       *)
(* add_to_history (joke_jar) and add_voice                                 *)
(***************************************************************************)
\* mutant: the transform appends without looking
ArrayUnion_Append(l, x) == Append(l, x)

\* ArrayUnion([x]), applied by the store to the list the document holds:
\* x is added unless the list has it
ArrayUnion(l, x) == IF x \in Range(l) THEN l ELSE Append(l, x)

\* DELETE /users/{user_id}/created-jokes/{joke_id}: the prologue of the
\* preference routes (401, 403, 404)
DeleteCreatedStart(p, u, c, j) ==
    /\ req[p].op = "idle"
    /\ LET r == [Idle EXCEPT !.op = "delete_created", !.user = u, !.cred = c,
                             !.joke = j]
       IN  req' = [req EXCEPT ![p] =
                     IF c = NoCred THEN Respond(r, 401, FALSE)
                     ELSE IF u # c THEN Respond(r, 403, FALSE)
                     ELSE IF ~joke_id_exists(j) THEN Respond(r, 404, FALSE)
                     ELSE [r EXCEPT !.pc = "read"]]
    /\ UNCHANGED <<voices, metadata, bucket, joke_audios, jokes, users, threads,
                   tasks, nextUuid, log>>

\* delete_user_created_joke: user_doc = user_ref.get(); False when the
\* document is absent or the joke is not in creation_history
DeleteCreatedRead(p) ==
    /\ req[p].op = "delete_created"
    /\ req[p].pc = "read"
    /\ LET r == req[p]
           doc == users[r.user]
       IN  req' = [req EXCEPT ![p] =
                     IF doc.exists /\ r.joke \in Range(doc.creation_history)
                     THEN [r EXCEPT !.snap = doc, !.pc = "write"]
                     ELSE [Respond(r, 200, FALSE) EXCEPT !.snap = doc]]
    /\ UNCHANGED <<voices, metadata, bucket, joke_audios, jokes, users, threads,
                   tasks, nextUuid, log>>

\* a delete that also removes the joke document
DeleteCreatedWrite_DropsJoke(p) ==
    /\ req[p].op = "delete_created"
    /\ req[p].pc = "write"
    /\ LET r == req[p]
       IN  /\ users' = [users EXCEPT ![r.user].creation_history =
                          ListRemove(r.snap.creation_history, r.joke)]
           /\ jokes' = [i \in DOMAIN jokes \ {r.joke} |-> jokes[i]]
           /\ req' = [req EXCEPT ![p] = Respond(r, 200, TRUE)]
    /\ UNCHANGED <<voices, metadata, bucket, joke_audios, threads, tasks,
                   nextUuid, log>>

\* creation_history.remove(joke_id); user_ref.update({'creation_history'})
DeleteCreatedWrite(p) ==
    /\ req[p].op = "delete_created"
    /\ req[p].pc = "write"
    /\ LET r == req[p]
       IN  /\ users' = [users EXCEPT ![r.user].creation_history =
                          ListRemove(r.snap.creation_history, r.joke)]
           /\ req' = [req EXCEPT ![p] = Respond(r, 200, TRUE)]
    /\ UNCHANGED <<voices, metadata, bucket, joke_audios, jokes, threads, tasks,
                   nextUuid, log>>

\* add_to_history(creator_id, joke_id), up to user_doc = user_ref.get()
AddToHistoryRead(p, u, j) ==
    /\ req[p].op = "idle"
    /\ req' = [req EXCEPT ![p] =
                 [Idle EXCEPT !.op = "add_to_history", !.user = u, !.cred = u,
                              !.joke = j, !.snap = users[u], !.pc = "write"]]
    /\ UNCHANGED <<voices, metadata, bucket, joke_audios, jokes, users, threads,
                   tasks, nextUuid, log>>

\* the document add_to_history leaves: set() of a new document with
\* joke_jar = [joke_id], or update({'joke_jar': ArrayUnion([joke_id])})
add_to_history(doc, snap, j) ==
    IF ~snap.exists
    THEN [NewUserDoc(<<>>, <<>>, <<>>) EXCEPT !.joke_jar = <<j>>]
    ELSE [doc EXCEPT !.joke_jar = ArrayUnion(doc.joke_jar, j)]

\* user_ref.set(...) / user_ref.update(...); return True
AddToHistoryWrite(p) ==
    /\ req[p].op = "add_to_history"
    /\ req[p].pc = "write"
    /\ LET r == req[p]
       IN  /\ users' = [users EXCEPT ![r.user] = add_to_history(@, r.snap, r.joke)]
           /\ req' = [req EXCEPT ![p] = Respond(r, 200, TRUE)]
    /\ UNCHANGED <<voices, metadata, bucket, joke_audios, jokes, threads, tasks,
                   nextUuid, log>>

\* POST /voices: get_current_user_id (401), creator check (403), then
\* add_voice up to db.collection('voices').document(voice_id).set(voice_data)
CreateVoiceStart(p, creator_id, c, voice_id) ==
    /\ req[p].op = "idle"
    /\ LET r == [Idle EXCEPT !.op = "create_voice", !.user = creator_id,
                             !.cred = c, !.joke = voice_id]
       IN  IF c = NoCred THEN
               /\ req' = [req EXCEPT ![p] = Respond(r, 401, FALSE)]
               /\ voices' = voices
           ELSE IF creator_id # c THEN
               /\ req' = [req EXCEPT ![p] = Respond(r, 403, FALSE)]
               /\ voices' = voices
           ELSE
               /\ req' = [req EXCEPT ![p] = [r EXCEPT !.pc = "read"]]
               /\ voices' = {v \in voices : v.voice_id # voice_id}
                              \cup {[voice_id |-> voice_id, creator_id |-> creator_id]}
    /\ UNCHANGED <<metadata, bucket, joke_audios, jokes, users, threads, tasks,
                   nextUuid, log>>

\* user_doc = user_ref.get()
CreateVoiceRead(p) ==
    /\ req[p].op = "create_voice"
    /\ req[p].pc = "read"
    /\ req' = [req EXCEPT ![p] = [req[p] EXCEPT !.snap = users[req[p].user],
                                               !.pc = "write"]]
    /\ UNCHANGED <<voices, metadata, bucket, joke_audios, jokes, users, threads,
                   tasks, nextUuid, log>>

\* mutant: an absent user document is left absent
add_voice_NoCreate(doc, snap, voice_id) ==
    IF ~snap.exists
    THEN doc
    ELSE [doc EXCEPT !.voices = ArrayUnion(doc.voices, voice_id)]

\* the user document add_voice leaves: set() of a new document with
\* voices = [voice_id], or update({'voices': ArrayUnion([voice_id])})
add_voice(doc, snap, voice_id) ==
    IF ~snap.exists
    THEN [NewUserDoc(<<>>, <<>>, <<>>) EXCEPT !.voices = <<voice_id>>]
    ELSE [doc EXCEPT !.voices = ArrayUnion(doc.voices, voice_id)]

\* user_ref.set(...) / user_ref.update(...).  return voice_data is inside
\* the else branch: for an absent document add_voice returns None and the
\* route, reading voice_data['voice_id'], ends with 500
CreateVoiceWrite(p) ==
    /\ req[p].op = "create_voice"
    /\ req[p].pc = "write"
    /\ LET r == req[p]
       IN  /\ users' = [users EXCEPT ![r.user] = add_voice(@, r.snap, r.joke)]
           /\ req' = [req EXCEPT ![p] =
                        IF r.snap.exists THEN Respond(r, 200, TRUE)
                        ELSE Respond(r, 500, FALSE)]
    /\ UNCHANGED <<voices, metadata, bucket, joke_audios, jokes, threads, tasks,
                   nextUuid, log>>

(***************************************************************************)
(* Specification of the requests that write the user document              *)
(***************************************************************************)
ListJokes  == {1}
ListVoices == {"v1"}
ListJokeCreateInputs ==
    {[joke_setup |-> 201, joke_punchline |-> "ha", scenarios |-> <<>>]}

\* user documents the runs start from: the absent document and documents
\* the requests leave behind
ListUserDocs ==
    {NoUserDoc,
     [NewUserDoc(<<1>>, <<1>>, <<>>) EXCEPT !.joke_jar = <<1>>, !.voices = <<"v1">>],
     [NewUserDoc(<<>>, <<2>>, <<1>>) EXCEPT !.joke_jar = <<2, 1>>]}

InitLists ==
    /\ InitStore
    /\ users \in [Users -> ListUserDocs]
    /\ InitMetadata

ListPrefRequest(p) ==
    \E o \in PrefOps, u \in Users, j \in ListJokes : PrefStart(p, o, u, "u1", j)

ListAddJokeRequest(p) ==
    \E joke \in ListJokeCreateInputs, rv \in NewRandomVals :
        AddJokeStart(p, "u1", joke, rv)

\* the joke the first add_joke of the run creates, or a joke of another user
ListDeleteCreatedRequest(p) ==
    \E u \in Users, j \in ListJokes \cup {FirstUuid} :
        DeleteCreatedStart(p, u, "u1", j)

ListAddToHistory(p) ==
    \E u \in Users, j \in ListJokes : AddToHistoryRead(p, u, j)

ListCreateVoiceRequest(p) ==
    \E v \in ListVoices : CreateVoiceStart(p, "u1", "u1", v)

NextLists ==
    \E p \in Procs :
        \/ ListPrefRequest(p)
        \/ PrefRead(p)
        \/ PrefWrite(p)
        \/ ListAddJokeRequest(p)
        \/ AddJokeUserRead(p)
        \/ AddJokeUserWrite(p)
        \/ AddJokeReturn(p)
        \/ ListDeleteCreatedRequest(p)
        \/ DeleteCreatedRead(p)
        \/ DeleteCreatedWrite(p)
        \/ ListAddToHistory(p)
        \/ AddToHistoryWrite(p)
        \/ ListCreateVoiceRequest(p)
        \/ CreateVoiceRead(p)
        \/ CreateVoiceWrite(p)

SpecLists == InitLists /\ [][NextLists]_vars

(***************************************************************************)
(* Specification of get_random_jokes alone, called with small limits       *)
(* against a store that holds more documents than limit * 10               *)
(***************************************************************************)
SampleStore      == NStore + 3
SampleLimits     == {1, 2}
SampleScenarios  == {"", " School "}

InitSample ==
    /\ jokes = [i \in 1..SampleStore |-> StoreJoke(i)]
    /\ threads = EmptyBag
    /\ tasks = <<>>
    /\ req = [p \in Procs |-> Idle]
    /\ nextUuid = FirstUuid
    /\ bucket = {}
    /\ joke_audios = {}
    /\ log = {}
    /\ voices = {}
    /\ users = [u \in Users |-> NoUserDoc]
    /\ metadata = [j \in 1..NStore |-> NoMetadata]

\* jokes = FirebaseService.get_random_jokes(limit, age_range, scenario),
\* with the threshold and the direction it drew
SampleCall(p, limit, age, sc, threshold, direction) ==
    /\ req[p].op = "idle"
    /\ req' = [req EXCEPT ![p] =
                 [Idle EXCEPT !.op = "get_random_jokes", !.pc = "done",
                              !.limit = limit, !.age_range = age, !.scenario = sc,
                              !.threshold = threshold, !.direction = direction,
                              !.all_jokes = get_random_jokes(limit, age, sc,
                                                             threshold, direction)]]
    /\ UNCHANGED <<voices, metadata, bucket, joke_audios, jokes, users, threads,
                   tasks, nextUuid, log>>

NextSample ==
    \E p \in Procs :
        \E limit \in SampleLimits, age \in AgeInputs, sc \in SampleScenarios,
           threshold \in Thresholds, direction \in BOOLEAN :
            SampleCall(p, limit, age, sc, threshold, direction)

SpecSample == InitSample /\ [][NextSample]_vars

(***************************************************************************)
(* Specification of the background tasks with store failures: one          *)
(* get_jokes request whose backfill is saved, audio requests for a joke    *)
(* without audio, and task steps that can raise                            *)
(***************************************************************************)
TaskAudioJokes == {1}

\* the provider answers with audio that is long enough, or fails
TaskSynthOutcomes ==
    {[kind |-> "error", size |-> 0], [kind |-> "audio", size |-> MinAudioBytes + 1]}

TaskUploadOutcomes == {"ok"}

TaskScenarioInputs == {" School "}

TaskGetJokesRequest(p) ==
    \E u \in Users, nj \in SaveNumJokesInputs, sc \in TaskScenarioInputs :
        GetJokesStart(p, u, "u1", nj, "", sc)

TaskAudioRequest(p) == \E j \in TaskAudioJokes : AudioStart(p, j)

NextTasks ==
    \/ \E p \in Procs :
        \/ p \in FeedProcs /\ TaskGetJokesRequest(p)
        \/ \E threshold \in SaveThresholds, direction \in BOOLEAN :
              GetJokesFetch(p, threshold, direction)
        \/ GetJokesLiked(p)
        \/ GetJokesDecide(p)
        \/ p \notin FeedProcs /\ TaskAudioRequest(p)
        \/ AudioGetJoke(p)
        \/ \E o \in TaskSynthOutcomes : AudioSynth(p, o)
        \/ \E outcome \in TaskUploadOutcomes : AudioUpload(p, outcome)
        \/ AudioRespond(p)
    \/ \E t \in DOMAIN tasks : SaveQuery(t)
    \/ \E t \in DOMAIN tasks : SaveWrite(t)
    \/ \E t \in DOMAIN tasks : SaveFail(t)
    \/ \E t \in DOMAIN tasks : AudioSaveUrls(t)
    \/ \E t \in DOMAIN tasks : AudioSaveDefault(t)
    \/ \E t \in DOMAIN tasks : AudioSaveRecord(t)
    \/ \E t \in DOMAIN tasks : AudioSaveFail(t)

SpecTasks == InitSave /\ [][NextTasks]_vars

(***************************************************************************)
(* Specification of the requests that name a joke: preference requests,    *)
(* deletes of created jokes and audio requests, for a joke of the store    *)
(* and for an identifier the store does not hold, with add_joke and the    *)
(* counter threads alongside                                               *)
(***************************************************************************)
AbsentJoke    == NStore + 1
NamedJokes    == {1, AbsentJoke}
NamedPrefOps  == {"favorite", "unfavorite", "like", "dislike"}

NamedUserDocs ==
    {NoUserDoc,
     NewUserDoc(<<1>>, <<1>>, <<>>)}

InitNamed ==
    /\ InitStore
    /\ users \in [Users -> NamedUserDocs]
    /\ InitMetadata

NamedPrefRequest(p) ==
    \E o \in NamedPrefOps, u \in Users, j \in NamedJokes :
        PrefStart(p, o, u, "u1", j)

\* the joke the add_joke of the run creates, or the absent identifier
NamedDeleteCreatedRequest(p) ==
    \E u \in Users, j \in {FirstUuid, AbsentJoke} :
        DeleteCreatedStart(p, u, "u1", j)

NamedAudioRequest(p) == \E j \in NamedJokes : AudioStart(p, j)

NextNamed ==
    \/ \E p \in Procs :
        \/ NamedPrefRequest(p)
        \/ PrefRead(p)
        \/ PrefWrite(p)
        \/ NamedDeleteCreatedRequest(p)
        \/ DeleteCreatedRead(p)
        \/ DeleteCreatedWrite(p)
        \/ ListAddJokeRequest(p)
        \/ AddJokeUserRead(p)
        \/ AddJokeUserWrite(p)
        \/ AddJokeReturn(p)
        \/ NamedAudioRequest(p)
        \/ AudioGetJoke(p)
        \/ \E o \in TaskSynthOutcomes : AudioSynth(p, o)
        \/ \E outcome \in TaskUploadOutcomes : AudioUpload(p, outcome)
        \/ AudioRespond(p)
    \/ \E th \in BagToSet(threads) : CounterGet(th)
    \/ \E th \in BagToSet(threads) : CounterWrite(th)

SpecNamed == InitNamed /\ [][NextNamed]_vars

(***************************************************************************)
(* The routes that return one list of a user: GET favorites, liked-jokes,  *)
(* disliked-jokes and created-jokes                                        *)
(***************************************************************************)
ReadOps == {"get_favorites", "get_liked", "get_disliked", "get_created"}

\* the field of the user document a route reads
ReadField(o) ==
    CASE o = "get_favorites" -> "favorites"
      [] o = "get_liked"     -> "like_history"
      [] o = "get_disliked"  -> "dislike_history"
      [] OTHER               -> "creation_history"

\* the loop over the identifiers: a JokeResponse for every one whose joke
\* document exists, in the order of the list
JokesOf(ids) ==
    LET found == SelectSeq(ids, LAMBDA id : joke_id_exists(id))
    IN  [i \in 1..Len(found) |-> JokeResponse(found[i])]

\* mutant: the list is served to every authenticated caller
ListReadStart_NoOwnerCheck(p, o, u, c) ==
    /\ req[p].op = "idle"
    /\ LET r == [Idle EXCEPT !.op = o, !.user = u, !.cred = c]
       IN  req' = [req EXCEPT ![p] =
                     IF c = NoCred THEN Respond(r, 401, FALSE)
                     ELSE [r EXCEPT !.snap = users[u], !.pc = "return"]]
    /\ UNCHANGED <<voices, metadata, bucket, joke_audios, jokes, users, threads,
                   tasks, nextUuid, log>>

\* the route up to user_doc = user_ref.get(): 401 from verify_token, 403
\* when the path's user is not the caller
ListReadStart(p, o, u, c) ==
    /\ req[p].op = "idle"
    /\ LET r == [Idle EXCEPT !.op = o, !.user = u, !.cred = c]
       IN  req' = [req EXCEPT ![p] =
                     IF c = NoCred THEN Respond(r, 401, FALSE)
                     ELSE IF u # c THEN Respond(r, 403, FALSE)
                     ELSE [r EXCEPT !.snap = users[u], !.pc = "return"]]
    /\ UNCHANGED <<voices, metadata, bucket, joke_audios, jokes, users, threads,
                   tasks, nextUuid, log>>

\* the joke documents are read and JokeListResponse(jokes=jokes) returned
ListReadReturn(p) ==
    /\ req[p].op \in ReadOps
    /\ req[p].pc = "return"
    /\ LET r == req[p]
           ids == IF r.snap.exists THEN r.snap[ReadField(r.op)] ELSE <<>>
       IN  req' = [req EXCEPT ![p] =
                     [Respond(r, 200, TRUE) EXCEPT !.resp.jokes = JokesOf(ids)]]
    /\ UNCHANGED <<voices, metadata, bucket, joke_audios, jokes, users, threads,
                   tasks, nextUuid, log>>

(***************************************************************************)
(* Specification of the routes on one user's lists, called with the        *)
(* user's credential, with another user's and with none                    *)
(***************************************************************************)
Credentials  == {NoCred} \cup Principals
OwnerJokes   == {1}
OwnerUserDocs ==
    {NoUserDoc,
     NewUserDoc(<<1>>, <<1>>, <<2>>)}

InitOwner ==
    /\ InitStore
    /\ users \in [Users -> OwnerUserDocs]
    /\ InitMetadata

OwnerPrefRequest(p) ==
    \E o \in NamedPrefOps, u \in Users, c \in Credentials, j \in OwnerJokes :
        PrefStart(p, o, u, c, j)

OwnerDeleteCreatedRequest(p) ==
    \E u \in Users, c \in Credentials :
        DeleteCreatedStart(p, u, c, FirstUuid)

OwnerReadRequest(p) ==
    \E o \in ReadOps, u \in Users, c \in Credentials :
        ListReadStart(p, o, u, c)

NextOwner ==
    \E p \in Procs :
        \/ OwnerPrefRequest(p)
        \/ PrefRead(p)
        \/ PrefWrite(p)
        \/ OwnerDeleteCreatedRequest(p)
        \/ DeleteCreatedRead(p)
        \/ DeleteCreatedWrite(p)
        \/ OwnerReadRequest(p)
        \/ ListReadReturn(p)
        \/ ListAddJokeRequest(p)
        \/ AddJokeUserRead(p)
        \/ AddJokeUserWrite(p)
        \/ AddJokeReturn(p)

SpecOwner == InitOwner /\ [][NextOwner]_vars

(***************************************************************************)
(* Specification of get_jokes called with the user's credential, with      *)
(* another user's, and with no or an invalid credential, for which         *)
(* get_optional_user_id returns None                                       *)
(***************************************************************************)
GuestNumJokesInputs == {<<1>>, <<2>>}

GuestGetJokesRequest(p) ==
    \E u \in Users, c \in Credentials, nj \in GuestNumJokesInputs :
        GetJokesStart(p, u, c, nj, "", "")

NextGuest ==
    \E p \in FeedProcs :
        \/ GuestGetJokesRequest(p)
        \/ \E threshold \in Thresholds, direction \in BOOLEAN :
              GetJokesFetch(p, threshold, direction)
        \/ GetJokesLiked(p)
        \/ GetJokesDecide(p)

SpecGuest == InitFeed /\ [][NextGuest]_vars

(***************************************************************************)
(* Specification of the requests that call a provider, with the steps the  *)
(* server takes by itself under weak fairness.  generate_content is called *)
(* without a timeout, so the steps that hold the provider's answer         *)
(* (GetJokesDecide on the backfill and fallback branches, AudioSynth) are  *)
(* taken only if the provider answers and get no fairness.                 *)
(***************************************************************************)
LiveUserDocs ==
    {NoUserDoc,
     NewUserDoc(<<2, 3, 5, 7>>, <<1, 8>>, <<4, 9>>)}

InitLive ==
    /\ InitStore
    /\ users \in [Users -> LiveUserDocs]
    /\ InitMetadata

\* the decision when the pool is sufficient: no provider is involved
DecideDirect(p) == GetJokesDecide(p) /\ req'[p].resp.path = "direct"

NextLive ==
    \E p \in Procs :
        \/ p \in FeedProcs /\ SaveGetJokesRequest(p)
        \/ \E threshold \in SaveThresholds, direction \in BOOLEAN :
              GetJokesFetch(p, threshold, direction)
        \/ GetJokesLiked(p)
        \/ GetJokesDecide(p)
        \/ p \notin FeedProcs /\ AudioRequest(p)
        \/ AudioGetJoke(p)
        \/ \E o \in SynthOutcomes : AudioSynth(p, o)
        \/ \E outcome \in UploadOutcomes : AudioUpload(p, outcome)
        \/ AudioRespond(p)

FairLive ==
    \A p \in Procs :
        /\ WF_vars(\E threshold \in SaveThresholds, direction \in BOOLEAN :
                      GetJokesFetch(p, threshold, direction))
        /\ WF_vars(GetJokesLiked(p))
        /\ WF_vars(DecideDirect(p))
        /\ WF_vars(AudioGetJoke(p))
        /\ WF_vars(\E outcome \in UploadOutcomes : AudioUpload(p, outcome))
        /\ WF_vars(AudioRespond(p))

SpecLive == InitLive /\ [][NextLive]_vars /\ FairLive

(***************************************************************************)
(* Properties                                                              *)
(***************************************************************************)
\* a get_jokes request that has produced its response
FeedDone(p) == req[p].op = "get_jokes" /\ req[p].pc = "done"

\* ... after reaching the sufficiency decision
FeedDecided(p) == FeedDone(p) /\ req[p].resp.path # "none"

\* the requested count n of a request
RequestedCount(r) ==
    IF r.num_jokes = <<>> \/ r.num_jokes[1] <= 0 THEN 5 ELSE r.num_jokes[1]

\* the identifiers in the user's three lists as the request read them
ReadExcluded(r) ==
    {j \in DOMAIN jokes \cup ActJokes :
        \/ \E i \in DOMAIN r.snap.favorites : r.snap.favorites[i] = j
        \/ \E i \in DOMAIN r.snap.like_history : r.snap.like_history[i] = j
        \/ \E i \in DOMAIN r.snap.dislike_history : r.snap.dislike_history[i] = j}

\* the fetched jokes outside those lists, and how many they are
ReadRemaining(r) ==
    {r.all_jokes[i] : i \in {k \in DOMAIN r.all_jokes :
                                r.all_jokes[k].joke_id \notin ReadExcluded(r)}}

NumRemaining(r) ==
    Cardinality({k \in DOMAIN r.all_jokes :
                    r.all_jokes[k].joke_id \notin ReadExcluded(r)})

\* the three sufficiency conditions of the claims
SufficiencyHolds(r) ==
    /\ Len(r.all_jokes) > 0
    /\ 10 * NumRemaining(r) > 7 * Len(r.all_jokes)
    /\ NumRemaining(r) > (IF RequestedCount(r) >= 1 THEN RequestedCount(r) - 1 ELSE 0)

ResponseIds(r) == [i \in DOMAIN r.resp.jokes |-> r.resp.jokes[i].joke_id]

\* C1: every returned joke other than the liked joke injected on the
\* direct-serve path is outside the user's favorites, like_history and
\* dislike_history as the request read them, on every path
C1_ExclusionCorrect ==
    \A p \in Procs :
        FeedDone(p) =>
            \A i \in DOMAIN req[p].resp.jokes :
                \/ req[p].resp.path = "direct" /\ i = req[p].resp.likedIdx
                \/ req[p].resp.jokes[i].joke_id \notin ReadExcluded(req[p])

C1_Witness ==
    \E p \in Procs :
        /\ FeedDone(p)
        /\ req[p].resp.path = "direct"
        /\ req[p].resp.likedIdx > 0
        /\ Len(req[p].resp.jokes) >= 2
        /\ req[p].snap.favorites # <<>>
        /\ req[p].snap.dislike_history # <<>>
        /\ \E i \in DOMAIN req[p].all_jokes :
               req[p].all_jokes[i].joke_id \in ReadExcluded(req[p])

\* C2: a get_jokes response holds at most n jokes on every path (n = 5 when
\* num_jokes is missing or not positive)
C2_AtMostRequested ==
    \A p \in Procs :
        FeedDone(p) => Len(req[p].resp.jokes) <= RequestedCount(req[p])

\* C3: no get_jokes response holds two jokes with the same identifier,
\* whatever preference requests of the same user interleave with it
C3_NoDuplicateIds ==
    \A p \in Procs : FeedDone(p) => NoDup(ResponseIds(req[p]))

\* C4: when the fetched pool is non-empty, more than 70% of it remains and
\* more than max(0, n-1) jokes remain, the request is served directly and the
\* generative provider is not invoked
C4_DirectServeWhenSufficient ==
    \A p \in Procs :
        (FeedDecided(p) /\ SufficiencyHolds(req[p])) =>
            req[p].resp.path = "direct" /\ req[p].genCalls = 0

C4_Witness ==
    \E p \in Procs :
        /\ FeedDecided(p)
        /\ Len(req[p].all_jokes) = 10
        /\ NumRemaining(req[p]) = 8
        /\ RequestedCount(req[p]) = 5
        /\ req[p].resp.path = "direct"

\* what C5 requires of a generated joke; verbatim: the tag lists are exactly
\* [scenario] and [ageRange]
GeneratedJokeOk(r, jk, verbatim) ==
    /\ jk.creator_id = "gemini"
    /\ jk.created_by_customer = FALSE
    /\ jk.scenarios = IF verbatim \/ r.scenario # "" THEN <<r.scenario>> ELSE <<>>
    /\ jk.age_range = IF verbatim \/ r.age_range # "" THEN <<r.age_range>> ELSE <<>>

\* C5 as stated: when a sufficiency condition fails the generative provider
\* is invoked exactly once, and on success every returned joke has creator_id
\* "gemini", created_by_customer false, scenarios = [scenario] and
\* age_range = [ageRange]
C5_BackfillVerbatimTags ==
    \A p \in Procs :
        (FeedDecided(p) /\ ~SufficiencyHolds(req[p])) =>
            /\ req[p].genCalls = 1
            /\ ~req[p].resp.genFailed =>
                   \A i \in DOMAIN req[p].resp.jokes :
                       GeneratedJokeOk(req[p], req[p].resp.jokes[i], TRUE)

\* C5 (amended): when a sufficiency condition fails the generative provider
\* is invoked exactly once, and on success every returned joke has creator_id
\* "gemini", created_by_customer false, scenarios = [scenario] when scenario
\* is a non-empty string and [] when it is empty, and likewise age_range
C5_BackfillTags ==
    \A p \in Procs :
        (FeedDecided(p) /\ ~SufficiencyHolds(req[p])) =>
            /\ req[p].genCalls = 1
            /\ ~req[p].resp.genFailed =>
                   \A i \in DOMAIN req[p].resp.jokes :
                       GeneratedJokeOk(req[p], req[p].resp.jokes[i], FALSE)

C5_Witness ==
    \E p \in Procs :
        /\ FeedDecided(p)
        /\ Len(req[p].all_jokes) = 10
        /\ NumRemaining(req[p]) = 2
        /\ RequestedCount(req[p]) = 5
        /\ req[p].resp.path = "backfill"
        /\ Len(req[p].resp.jokes) > 0
        /\ req[p].scenario # ""
        /\ req[p].age_range = ""

\* C6: the direct-serve path returns exactly n jokes: n-1 distinct jokes of
\* remainingJokes and the liked joke when one was found, else n distinct
\* jokes of remainingJokes
C6_DirectServeExactlyN ==
    \A p \in Procs :
        (FeedDone(p) /\ req[p].resp.path = "direct") =>
            LET r  == req[p]
                n  == RequestedCount(r)
                js == r.resp.jokes
            IN  /\ Len(js) = n
                /\ IF r.liked_jokes # <<>>
                   THEN /\ \A i \in 1..(n - 1) : js[i] \in ReadRemaining(r)
                        /\ NoDup(SubSeq(ResponseIds(r), 1, n - 1))
                        /\ js[n] = r.liked_jokes[1]
                   ELSE /\ \A i \in 1..n : js[i] \in ReadRemaining(r)
                        /\ NoDup(ResponseIds(r))

C6_Witness ==
    \E p \in Procs :
        /\ FeedDone(p)
        /\ req[p].resp.path = "direct"
        /\ req[p].liked_jokes # <<>>
        /\ RequestedCount(req[p]) = 5
        /\ Len(req[p].resp.jokes) = 5

\* a scenario filter other than blank or "all" was supplied
ScenarioFilterActive(r) ==
    /\ r.scenario # ""
    /\ Strip(r.scenario) # ""
    /\ Lower(Strip(r.scenario)) # "all"

\* the filter value is in the joke's scenarios, ignoring case
HasScenario(r, jk) ==
    \E i \in DOMAIN jk.scenarios : Lower(jk.scenarios[i]) = Lower(Strip(r.scenario))

C8_GenerationFailure ==
    [][\A p \in Procs :
          (req[p].pc = "decide" /\ req'[p].pc = "done" /\ req'[p].resp.genFailed) =>
              /\ IF NumRemaining(req[p]) > 0
                 THEN /\ req'[p].resp.status = 200
                      /\ req'[p].resp.jokes # <<>>
                      /\ \A i \in DOMAIN req'[p].resp.jokes :
                             req'[p].resp.jokes[i] \in ReadRemaining(req[p])
                 ELSE /\ req'[p].resp.status = 500
                      /\ req'[p].resp.jokes = <<>>
              /\ tasks' = tasks
              /\ jokes' = jokes
              /\ users' = users
              /\ threads' = threads]_vars

C8_Witness ==
    \E p \in Procs :
        /\ FeedDone(p)
        /\ req[p].resp.genFailed
        /\ req[p].resp.status = 200
        /\ req[p].resp.jokes # <<>>
        /\ tasks = <<>>

\* a preference call that is between its read and its response
InFlight(p) == req[p].op \in PrefOps /\ req[p].pc \in {"read", "write"}

LikeDislikeDisjoint ==
    \A u \in Users :
        Range(users[u].like_history) \cap Range(users[u].dislike_history) = {}

\* C9: no joke is ever in both like_history and dislike_history of a user;
\* when add_to_user_liked_history(u, j) takes effect j is in like_history(u)
\* and not in dislike_history(u), and symmetrically for
\* add_to_user_disliked_history; for every interleaving of concurrent calls
C9_LikeDislikeExclusive ==
    /\ [](LikeDislikeDisjoint)
    /\ [][\A p \in Procs :
            (InFlight(p) /\ req'[p].pc = "done") =>
                LET u == req[p].user
                    j == req[p].joke
                IN  /\ req[p].op = "like" =>
                           /\ j \in Range(users'[u].like_history)
                           /\ j \notin Range(users'[u].dislike_history)
                    /\ req[p].op = "dislike" =>
                           /\ j \in Range(users'[u].dislike_history)
                           /\ j \notin Range(users'[u].like_history)]_vars

C9_Witness ==
    \E p, q \in Procs :
        /\ p # q
        /\ req[p].op = "like" /\ req[p].pc = "done" /\ req[p].resp.success
        /\ req[p].joke \in Range(req[p].snap.dislike_history)
        /\ req[p].joke \in Range(users[req[p].user].like_history)
        /\ req[q].op = "dislike" /\ req[q].pc = "write"
        /\ req[q].joke = req[p].joke

\* C10: concurrent preference calls of one user lose no update: once no call
\* is in flight, a joke that was liked and never disliked is in like_history,
\* one that was disliked and never liked is in dislike_history, and one that
\* was added to the favorites is in favorites
C10_NoLostUpdate ==
    \A u \in Users :
        (\A p \in Procs : ~(InFlight(p) /\ req[p].user = u)) =>
            \A j \in ActJokes :
                /\ (<<u, "like", j>> \in log /\ <<u, "dislike", j>> \notin log)
                       => j \in Range(users[u].like_history)
                /\ (<<u, "dislike", j>> \in log /\ <<u, "like", j>> \notin log)
                       => j \in Range(users[u].dislike_history)
                /\ (<<u, "favorite", j>> \in log /\ <<u, "unfavorite", j>> \notin log)
                       => j \in Range(users[u].favorites)

\* C11: no two joke documents have the same (setup, punchline) pair, after
\* any sequence and interleaving of add_joke requests and background saves
C11_UniqueSetupPunchline ==
    \A a, b \in DOMAIN jokes :
        a # b => ~(/\ jokes[a].joke_setup = jokes[b].joke_setup
                   /\ jokes[a].joke_punchline = jokes[b].joke_punchline)

\* the write of save_jokes_async task t for a joke that matched a row
MergeStep(t) ==
    /\ tasks[t].fn = "save_jokes_async"
    /\ tasks[t].pc = "write"
    /\ tasks[t].found # <<>>
    /\ tasks'[t].pc = "query"

\* C12: save_jokes_async of a joke whose setup equals an existing row's setup
\* and whose punchline equals that row's punchline ignoring case and
\* surrounding whitespace adds no row; the row's scenarios and age_range
\* become the union of the old and the new values, so that saving the same
\* joke again changes neither; nothing else changes
C12_DuplicateMerge ==
    [][\A t \in DOMAIN tasks :
          MergeStep(t) =>
              LET id == tasks[t].found[1].id
                  joke_data == tasks[t].jokes[tasks[t].idx]
              IN  /\ DOMAIN jokes' = DOMAIN jokes
                  /\ Range(jokes'[id].scenarios)
                       = Range(jokes[id].scenarios) \cup Range(joke_data.scenarios)
                  /\ Range(jokes'[id].age_range)
                       = Range(jokes[id].age_range) \cup Range(joke_data.age_range)
                  /\ NoDup(jokes'[id].scenarios) /\ NoDup(jokes'[id].age_range)
                  /\ (/\ Range(joke_data.scenarios) \subseteq Range(jokes[id].scenarios)
                      /\ Range(joke_data.age_range) \subseteq Range(jokes[id].age_range))
                       => /\ Range(jokes'[id].scenarios) = Range(jokes[id].scenarios)
                          /\ Range(jokes'[id].age_range) = Range(jokes[id].age_range)
                  /\ \A k \in DOMAIN jokes :
                         [jokes'[k] EXCEPT !.scenarios = <<>>, !.age_range = <<>>]
                           = [jokes[k] EXCEPT !.scenarios = <<>>, !.age_range = <<>>]
                  /\ \A k \in DOMAIN jokes \ {id} : jokes'[k] = jokes[k]]_vars

\* the same generated joke was saved twice onto store row 1, which gained
\* the scenario of the request
C12_Witness ==
    \E t \in DOMAIN tasks :
        /\ TaskFinished(t)
        /\ Len(tasks[t].jokes) = 2
        /\ tasks[t].jokes[1].joke_setup = 1
        /\ tasks[t].jokes[2].joke_setup = 1
        /\ Range(jokes[1].scenarios) = {"school", " School "}
        /\ \A id \in DOMAIN jokes : jokes[id].creator_id # "gemini"

\* C13: after a backfill response, once its background save has run to
\* completion, every joke identifier returned to the client resolves in the
\* jokes collection to a document with the same setup and punchline
C13_ReturnedIdsResolve ==
    \A p \in Procs :
        (/\ FeedDone(p)
         /\ req[p].resp.path = "backfill"
         /\ \E t \in DOMAIN tasks : tasks[t].owner = p /\ TaskFinished(t)) =>
            \A i \in DOMAIN req[p].resp.jokes :
                LET jk == req[p].resp.jokes[i]
                IN  /\ jk.joke_id \in DOMAIN jokes
                    /\ jokes[jk.joke_id].joke_setup = jk.joke_setup
                    /\ jokes[jk.joke_id].joke_punchline = jk.joke_punchline

\* C14: each joke_metadata counter is a non-negative integer in every
\* reachable state, for any interleaving of the counter threads, including a
\* decrement that creates the metadata document
C14_CountersNonNegative ==
    \A j \in DOMAIN metadata :
        /\ metadata[j].liked_times \in Nat
        /\ metadata[j].disliked_times \in Nat
        /\ metadata[j].saved_to_favorite_times \in Nat

\* a decrement found no metadata document and created it
C14_Witness ==
    \E th \in BagToSet(threads) :
        /\ th.pc = "done"
        /\ th.increment = -1
        /\ ~th.exists
        /\ metadata[th.joke_id].exists
        /\ metadata[th.joke_id][th.field] = 0

\* the call of request r repeats what document doc already records
AlreadyRecorded(r, doc) ==
    CASE r.op = "like"       -> doc.exists /\ r.joke \in Range(doc.like_history)
      [] r.op = "dislike"    -> doc.exists /\ r.joke \in Range(doc.dislike_history)
      [] r.op = "favorite"   -> doc.exists /\ r.joke \in Range(doc.favorites)
      [] r.op = "unfavorite" -> ~doc.exists \/ r.joke \notin Range(doc.favorites)
      [] OTHER               -> FALSE

\* C15: a like of an already-liked joke, a dislike of an already-disliked
\* joke, a favorite of an already-favorited joke and an unfavorite of a joke
\* that is not a favorite leave the user document unchanged and start no
\* counter update
C15_NoUpdateWithoutChange ==
    [][\A p \in Procs :
          (/\ InFlight(p)
           /\ req'[p].pc = "done"
           /\ AlreadyRecorded(req[p], IF req[p].pc = "read"
                                      THEN users[req[p].user] ELSE req[p].snap)) =>
              /\ users' = users
              /\ threads' = threads]_vars

\* the stores and the task list are as they were
NothingWritten ==
    /\ jokes' = jokes
    /\ users' = users
    /\ metadata' = metadata
    /\ joke_audios' = joke_audios
    /\ bucket' = bucket
    /\ tasks' = tasks
    /\ threads' = threads

\* request p arrives as a get_audio_for_joke request
AudioArrives(p) == req[p].op = "idle" /\ req'[p].op = "audio"

AudioTasksOf(p) ==
    {t \in DOMAIN tasks : tasks[t].fn = "save_audio_url_async" /\ tasks[t].owner = p}

\* an audio request that found an existing joke without default_audio_url
AudioMiss(p) ==
    /\ req[p].op = "audio"
    /\ req[p].pc \in {"synth", "upload", "respond"}
         \/ (req[p].pc = "done" /\ req[p].resp.path \notin {"cached", "not_found"})

SynthesisFailed(o) ==
    \/ o.kind \in {"error", "blocked", "no_audio"}
    \/ o.kind = "audio" /\ o.size <= 10000

\* C18: when synthesis fails (provider error, content blocked, no audio
\* data, or audio of 10000 bytes or less), get_audio_for_joke ends with an
\* error: no URL is returned, nothing is uploaded, no persistence write is
\* scheduled and the joke document is unchanged
C18_SynthesisFailure ==
    [][\A p \in Procs :
          (/\ req[p].op = "audio"
           /\ req[p].pc = "synth"
           /\ req'[p].synth # <<>>
           /\ SynthesisFailed(req'[p].synth[1])) =>
              /\ req'[p].pc = "done"
              /\ req'[p].resp.status = 500
              /\ req'[p].resp.audio_url = ""
              /\ NothingWritten]_vars

\* audio of exactly 10000 bytes was rejected
C18_Witness ==
    \E p \in Procs :
        /\ req[p].op = "audio" /\ req[p].pc = "done"
        /\ req[p].synth = <<[kind |-> "audio", size |-> 10000]>>
        /\ req[p].resp.status = 500
        /\ bucket = {}
        /\ tasks = <<>>

\* C19: every get_jokes and get_audio_for_joke request eventually produces
\* a response, even when the generative or speech provider never answers
C19_EventuallyResponds ==
    \A p \in Procs :
        (req[p].op \in {"get_jokes", "audio"}) ~> (req[p].pc = "done")

\* a step of get_jokes request p that does not end on the backfill or the
\* fallback path
DirectServeStep(p) ==
    /\ req'[p] # req[p]
    /\ req'[p].op = "get_jokes"
    /\ \/ req'[p].pc \in {"fetch", "liked", "decide"}
       \/ req'[p].pc = "done" /\ req'[p].resp.path = "direct"

\* C20: a get_jokes request that takes the direct-serve path performs no
\* write: the joke, user and joke_metadata documents are unchanged and no
\* background task is scheduled
C20_DirectServeNoWrite ==
    [][\A p \in Procs : DirectServeStep(p) => NothingWritten]_vars

C20_Witness ==
    \E p \in Procs :
        /\ FeedDone(p)
        /\ req[p].resp.path = "direct"
        /\ Len(req[p].resp.jokes) = 2
        /\ req[p].resp.likedIdx = 2
        /\ tasks = <<>>
        /\ threads = EmptyBag

\* a background task that has taken a step
TaskStarted(t) ==
    IF tasks[t].fn = "save_jokes_async"
    THEN tasks[t].idx > 1 \/ tasks[t].pc # "query"
    ELSE tasks[t].pc # "urls"

\* a background task in which a store call has raised
TaskHasFailed(t) ==
    IF tasks[t].fn = "save_jokes_async"
    THEN tasks[t].failed # {}
    ELSE tasks[t].pc = "failed"

\* C21: a background task (save_jokes_async, save_audio_url_async) takes
\* its steps only when the response of its request has been produced, and no
\* step of a task, failing or not, changes any request: the response stays
\* as it was sent and the request does not run again.
C21_TasksAfterResponse ==
    [][\A t \in DOMAIN tasks :
          (t \in DOMAIN tasks' /\ tasks'[t] # tasks[t])
              => /\ req[tasks[t].owner].pc = "done"
                 /\ req' = req]_vars

\* C21 witness: a save task and an audio task have both failed, and their
\* requests hold the successful responses they sent
C21_Witness ==
    \E t, a \in DOMAIN tasks :
        /\ tasks[t].fn = "save_jokes_async" /\ TaskHasFailed(t)
        /\ req[tasks[t].owner].resp.status = 200
        /\ req[tasks[t].owner].resp.path = "backfill"
        /\ tasks[a].fn = "save_audio_url_async" /\ TaskHasFailed(a)
        /\ req[tasks[a].owner].resp.status = 200
        /\ req[tasks[a].owner].resp.path = "generated"

\* the store holds the item of a batch: a document with its setup and its
\* punchline (ignoring case and surrounding whitespace) that carries its tags
ItemStored(joke_data) ==
    \E id \in DOMAIN jokes :
        /\ jokes[id].joke_setup = joke_data.joke_setup
        /\ Lower(Strip(jokes[id].joke_punchline))
             = Lower(Strip(joke_data.joke_punchline))
        /\ Range(joke_data.scenarios) \subseteq Range(jokes[id].scenarios)
        /\ Range(joke_data.age_range) \subseteq Range(jokes[id].age_range)

\* C22: when save_jokes_async has gone through its batch, every item whose
\* store calls did not raise has been written or merged, whatever happened
\* to the other items, and the count it returns is the number of those
\* items, between 0 and the batch size.
C22_SaveCountsWritten ==
    \A t \in DOMAIN tasks :
        TaskFinished(t) =>
            LET task == tasks[t]
                ok == DOMAIN task.jokes \ task.failed
            IN  /\ \A i \in ok : ItemStored(task.jokes[i])
                /\ task.saved_count = Cardinality(ok)
                /\ task.saved_count \in 0..Len(task.jokes)

\* C22 witness: the first item of a batch raised and the second one was
\* saved; the task returns 1
C22_Witness ==
    \E t \in DOMAIN tasks :
        /\ TaskFinished(t)
        /\ Len(tasks[t].jokes) >= 2
        /\ tasks[t].failed = {1}
        /\ tasks[t].saved_count = Len(tasks[t].jokes) - 1
        /\ ItemStored(tasks[t].jokes[2])

\* the list fields of a user document
ListFields ==
    {"favorites", "like_history", "dislike_history", "creation_history", "joke_jar"}

\* C23: in every reachable state no list of a user document (favorites,
\* like_history, dislike_history, creation_history, joke_jar) holds an
\* identifier twice.
C23_NoDuplicateEntries ==
    \A u \in Users : \A f \in ListFields : NoDup(users[u][f])

\* C23 witness: requests that add to joke_jar and to favorites an
\* identifier the list already had (one of them from a stale snapshot) have
\* written, and each list holds it once
C23_Witness ==
    \E u \in Users, p, q \in Procs :
        /\ req[p].op = "add_to_history" /\ req[p].pc = "done"
        /\ req[p].user = u /\ req[p].snap.exists
        /\ req[p].joke \in Range(req[p].snap.joke_jar)
        /\ req[q].op = "favorite" /\ req[q].pc = "done" /\ req[q].resp.success
        /\ req[q].user = u
        /\ Cardinality({i \in DOMAIN users[u].joke_jar :
                           users[u].joke_jar[i] = req[p].joke}) = 1
        /\ Cardinality({i \in DOMAIN users[u].favorites :
                           users[u].favorites[i] = req[q].joke}) = 1

\* the list a creating operation puts its identifier in
ListOfOp(o) ==
    CASE o = "favorite"     -> "favorites"
      [] o = "like"         -> "like_history"
      [] o = "dislike"      -> "dislike_history"
      [] o = "add_joke"     -> "creation_history"
      [] OTHER              -> "voices"

CreatingOps == {"favorite", "like", "dislike", "add_joke", "create_voice"}

\* request p takes the step that writes the user document
UserWriteStep(p) ==
    /\ req[p].pc \in {"write", "user_write"}
    /\ req'[p].pc # req[p].pc

\* request p, reading the user document, returns without a write
ReadReturns(p) ==
    /\ req[p].pc = "read"
    /\ req'[p].pc = "done"

\* C24: when the user document is absent, the write of a favorite, like,
\* dislike, add_joke or voice registration creates it with the acted-on
\* identifier as the only element of the matching list and every other list
\* empty; an unfavorite or a delete of a created joke that finds no document
\* returns false and creates none.
C24_LazyCreation ==
    [][\A p \in Procs :
          LET r == req[p]
              doc == users[r.user]
          IN  /\ (r.op \in CreatingOps /\ UserWriteStep(p) /\ ~doc.exists)
                    => users'[r.user] =
                         [NoUserDoc EXCEPT !.exists = TRUE,
                                           ![ListOfOp(r.op)] = <<r.joke>>]
              /\ (r.op \in {"unfavorite", "delete_created"} /\ ReadReturns(p)
                    /\ ~doc.exists)
                    => /\ users' = users
                       /\ ~req'[p].resp.success]_vars

\* C24 witness: a voice registration has created the user document with
\* voices = [voice_id] and nothing else, and an unfavorite that found no
\* document has returned false
C24_Witness ==
    \E p, q \in Procs :
        /\ req[p].op = "create_voice" /\ req[p].pc = "done"
        /\ ~req[p].snap.exists
        /\ users[req[p].user] =
             [NoUserDoc EXCEPT !.exists = TRUE, !.voices = <<req[p].joke>>]
        /\ req[q].op = "unfavorite" /\ req[q].pc = "done"
        /\ ~req[q].snap.exists /\ req[q].resp.status = 200
        /\ ~req[q].resp.success

\* the number of fetched jokes the exclusion filter removed
NumRemoved(r) == Len(r.all_jokes) - NumRemaining(r)

\* more jokes remain than the request needs from the pool
MoreThanNeeded(r) ==
    NumRemaining(r) > (IF RequestedCount(r) >= 1 THEN RequestedCount(r) - 1 ELSE 0)

\* C25 (as stated): whenever the filter removed at most 30% of a non-empty
\* fetched pool, exactly 30% included, and more jokes remain than needed,
\* get_jokes takes the direct-serve path.
C25_DirectAtMostThirtyPercent ==
    \A p \in Procs :
        (/\ FeedDecided(p)
         /\ Len(req[p].all_jokes) > 0
         /\ 10 * NumRemoved(req[p]) <= 3 * Len(req[p].all_jokes)
         /\ MoreThanNeeded(req[p]))
            => req[p].resp.path = "direct"

\* C25 (amended): whenever the filter removed less than 30% of a non-empty
\* fetched pool and more jokes remain than needed, get_jokes takes the
\* direct-serve path; when it removed exactly 30% (7 remaining of 10
\* fetched) it does not, and invokes the generative provider.
C25_DirectBelowThirtyPercent ==
    \A p \in Procs :
        (FeedDecided(p) /\ Len(req[p].all_jokes) > 0 /\ MoreThanNeeded(req[p]))
            => /\ 10 * NumRemoved(req[p]) < 3 * Len(req[p].all_jokes)
                    => req[p].resp.path = "direct"
               /\ 10 * NumRemoved(req[p]) = 3 * Len(req[p].all_jokes)
                    => req[p].resp.path # "direct" /\ req[p].genCalls = 1

\* C25 witness: 10 jokes fetched, 3 of them excluded, 7 remaining, more
\* than the 1 needed: the request went to the generative provider
C25_Witness ==
    \E p \in Procs :
        /\ FeedDecided(p)
        /\ Len(req[p].all_jokes) = 10
        /\ NumRemaining(req[p]) = 7
        /\ RequestedCount(req[p]) = 2
        /\ req[p].resp.path = "backfill"

\* the save tasks a request has spawned, in a given task list
SaveTasksOf(ts, p) ==
    {t \in DOMAIN ts : ts[t].fn = "save_jokes_async" /\ ts[t].owner = p}

\* one step of a get_jokes request through its state machine: from r to rn
FeedStep(r, rn, doc) ==
    \/ r.pc = "idle" /\ rn.pc = "fetch" /\ rn.snap = doc          \* ExclusionComputed
    \/ r.pc = "idle" /\ rn.pc = "done" /\ rn.resp.status = 403    \* refused
    \/ r.pc = "fetch" /\ rn.pc = "liked" /\ rn.snap = r.snap      \* PoolFetched
    \/ r.pc = "liked" /\ rn.pc = "decide"
         /\ rn.snap = r.snap /\ rn.all_jokes = r.all_jokes
    \/ r.pc = "decide" /\ rn.pc = "done"                          \* Responded
         /\ rn.resp.path \in {"direct", "backfill", "fallback"}
         /\ (rn.resp.path = "direct") = (rn.genCalls = 0)
         /\ rn.snap = r.snap /\ rn.all_jokes = r.all_jokes

\* C26: a get_jokes request that is not refused computes its exclusion
\* lists, then fetches the pool, then takes exactly one of the direct-serve
\* and backfill branches and responds; once it has responded it never
\* changes again.  It spawns at most one save task, and only together with a
\* backfill response built from a successful generation.
C26_FeedStateMachine ==
    [][\A p \in Procs :
          req'[p].op = "get_jokes" =>
            /\ req'[p] # req[p] =>
                  FeedStep(req[p], req'[p], users[req'[p].user])
            /\ req[p].pc = "done" => req'[p] = req[p]
            /\ Cardinality(SaveTasksOf(tasks', p)) <= 1
            /\ SaveTasksOf(tasks', p) # SaveTasksOf(tasks, p) =>
                  /\ req[p].pc = "decide"
                  /\ req'[p].resp.path = "backfill"
                  /\ ~req'[p].resp.genFailed
                  /\ req'[p].genCalls = 1
            /\ (req'[p].pc = "done" /\ req'[p].resp.path # "backfill") =>
                  SaveTasksOf(tasks', p) = {}]_vars

\* C26 witness: a request has gone through the backfill branch with a
\* non-empty pool and has spawned its one save task
C26_Witness ==
    \E p \in Procs :
        /\ FeedDecided(p)
        /\ req[p].resp.path = "backfill"
        /\ req[p].all_jokes # <<>>
        /\ req[p].snap.exists
        /\ Cardinality(SaveTasksOf(tasks, p)) = 1

\* the jokes of the store that carry a random_val, pass both filters of the
\* request and are outside the lists the request read
Eligible(r) ==
    {i \in DOMAIN jokes :
        /\ jokes[i].random_val # <<>>
        /\ scenario_match(r.scenario, jokes[i].scenarios)
        /\ age_match(r.age_range, jokes[i].age_range)
        /\ i \notin ReadExcluded(r)}

\* C27: when the store holds at least 5n eligible jokes and the user has
\* excluded no joke of the store, get_jokes serves from the store and does
\* not invoke the generative provider, whatever threshold and direction the
\* sampler drew.
C27_EnoughStoredMeansDirect ==
    \A p \in Procs :
        (/\ FeedDecided(p)
         /\ Cardinality(Eligible(req[p])) >= PoolFactor * RequestedCount(req[p])
         /\ ReadExcluded(req[p]) \cap DOMAIN jokes = {})
            => req[p].resp.path = "direct" /\ req[p].genCalls = 0

\* a get_jokes request that has just fetched its pool
PoolFetched(p) == req[p].op = "get_jokes" /\ req[p].pc = "liked"

\* the limit the request passed to get_random_jokes
PoolLimit(r) == PoolFactor * RequestedCount(r)

\* the documents on the drawn side of the threshold
DrawnSide(threshold, direction) ==
    {i \in DOMAIN jokes :
        /\ jokes[i].random_val # <<>>
        /\ IF direction THEN jokes[i].random_val[1] >= threshold
                        ELSE jokes[i].random_val[1] <= threshold}

\* the draws of the sampler that give the pool the request holds
PoolDraws(r) ==
    {d \in Thresholds \X BOOLEAN :
        r.all_jokes = get_random_jokes(PoolLimit(r), r.age_range, r.scenario,
                                       d[1], d[2])}

PoolIds(r) == {r.all_jokes[i].joke_id : i \in DOMAIN r.all_jokes}

\* a filter as C28 states it: the value is compared as it was supplied
FilterAsSupplied(value, tags) ==
    \/ value = "" \/ Strip(value) = "" \/ Lower(value) = "all"
    \/ tags = <<>>
    \/ \E i \in DOMAIN tags : Lower(tags[i]) = Lower(value)

\* a filter with the surrounding whitespace of the value removed first
FilterStripped(value, tags) ==
    \/ value = "" \/ Strip(value) = "" \/ Lower(Strip(value)) = "all"
    \/ tags = <<>>
    \/ \E i \in DOMAIN tags : Lower(tags[i]) = Lower(Strip(value))

\* C28 (as stated): every joke of the pool passes both filters, the filter
\* value compared as supplied ignoring case, and when the pool is below the
\* limit every document on the drawn side that passes both is in the pool.
C28_FiltersAsSupplied ==
    \A p \in Procs : PoolFetched(p) =>
        LET r == req[p]
            Pass(i) == /\ FilterAsSupplied(r.scenario, jokes[i].scenarios)
                       /\ FilterAsSupplied(r.age_range, jokes[i].age_range)
        IN  /\ \A i \in PoolIds(r) : Pass(i)
            /\ \A d \in PoolDraws(r) :
                  Len(r.all_jokes) < PoolLimit(r) =>
                      \A i \in DrawnSide(d[1], d[2]) : Pass(i) => i \in PoolIds(r)

\* C28 (amended): the same with the filter value stripped of surrounding
\* whitespace before the comparison: a joke is in the pool if and only if
\* it passes both filters (the store holds fewer documents than the query
\* limit, so only the limit of the pool can leave a passing joke out).
C28_FiltersStripped ==
    \A p \in Procs : PoolFetched(p) =>
        LET r == req[p]
            Pass(i) == /\ FilterStripped(r.scenario, jokes[i].scenarios)
                       /\ FilterStripped(r.age_range, jokes[i].age_range)
        IN  /\ \A i \in PoolIds(r) : Pass(i)
            /\ \A d \in PoolDraws(r) :
                  Len(r.all_jokes) < PoolLimit(r) =>
                      \A i \in DrawnSide(d[1], d[2]) : Pass(i) => i \in PoolIds(r)

\* C28 witness: with the filters " School " and "5-8" the pool holds a joke
\* tagged "School" and leaves out documents of the drawn side that fail the
\* scenario filter only and others that fail the age filter only
C28_Witness ==
    \E p \in Procs :
        /\ PoolFetched(p)
        /\ req[p].scenario = " School " /\ req[p].age_range = "5-8"
        /\ \E i \in PoolIds(req[p]) : "School" \in Range(jokes[i].scenarios)
        /\ \E d \in PoolDraws(req[p]) :
              /\ Len(req[p].all_jokes) < PoolLimit(req[p])
              /\ \E i \in DrawnSide(d[1], d[2]) \ PoolIds(req[p]) :
                    /\ ~FilterStripped(req[p].scenario, jokes[i].scenarios)
                    /\ FilterStripped(req[p].age_range, jokes[i].age_range)
              /\ \E i \in DrawnSide(d[1], d[2]) \ PoolIds(req[p]) :
                    /\ FilterStripped(req[p].scenario, jokes[i].scenarios)
                    /\ ~FilterStripped(req[p].age_range, jokes[i].age_range)

\* a call of get_random_jokes that has returned
Sampled(p) == req[p].op = "get_random_jokes" /\ req[p].pc = "done"

\* the documents of the query of a call, in query order
QueryDocs(r) ==
    Slice(OrderBy(DrawnSide(r.threshold, r.direction), r.direction),
          r.limit * QueryFactor)

\* docs is the answer of the query: at most limit * 10 documents of the
\* drawn side, none twice, in the order of the direction, and no document
\* of the side that is left out comes before one that is in
IsQueryAnswer(docs, r) ==
    LET side == DrawnSide(r.threshold, r.direction)
        rv(i) == jokes[i].random_val[1]
    IN  /\ Range(docs) \subseteq side
        /\ NoDup(docs)
        /\ Len(docs) = Min(Cardinality(side), QueryFactor * r.limit)
        /\ \A i, k \in DOMAIN docs :
              i < k => IF r.direction THEN rv(docs[i]) <= rv(docs[k])
                                      ELSE rv(docs[i]) >= rv(docs[k])
        /\ \A x \in side \ Range(docs) : \A i \in DOMAIN docs :
              IF r.direction THEN rv(docs[i]) <= rv(x) ELSE rv(docs[i]) >= rv(x)

\* the positions of docs whose document passes both filters of the call
PassingAt(docs, r) ==
    {i \in DOMAIN docs :
        /\ FilterStripped(r.scenario, jokes[docs[i]].scenarios)
        /\ FilterStripped(r.age_range, jokes[docs[i]].age_range)}

\* the k-th smallest element of a set of positions
KthOf(S, k) == CHOOSE i \in S : Cardinality({j \in S : j <= i}) = k

\* C29: get_random_jokes(limit) returns at most limit jokes, each with a
\* random_val and none twice: the first filter-passing documents, in query
\* order, of the at most 10 * limit documents on the drawn side of the
\* threshold (ascending from random_val >= threshold when direction is true,
\* descending from random_val <= threshold otherwise).
C29_FirstPassingInQueryOrder ==
    \A p \in Procs : Sampled(p) =>
        LET r == req[p]
            docs == QueryDocs(r)
            passing == PassingAt(docs, r)
        IN  /\ IsQueryAnswer(docs, r)
            /\ Len(r.all_jokes) <= r.limit
            /\ Len(r.all_jokes) = Min(r.limit, Cardinality(passing))
            /\ \A k \in DOMAIN r.all_jokes :
                  /\ r.all_jokes[k].joke_id = docs[KthOf(passing, k)]
                  /\ r.all_jokes[k].random_val # <<>>
            /\ NoDup([k \in DOMAIN r.all_jokes |-> r.all_jokes[k].joke_id])

\* C29 witness: a descending call whose side holds more than 10 * limit
\* documents returned limit jokes, having skipped a document that fails a
\* filter before the last one it returned
C29_Witness ==
    \E p \in Procs :
        /\ Sampled(p)
        /\ ~req[p].direction
        /\ Cardinality(DrawnSide(req[p].threshold, req[p].direction))
             > QueryFactor * req[p].limit
        /\ Len(req[p].all_jokes) = req[p].limit
        /\ LET docs == QueryDocs(req[p])
           IN  \E i \in DOMAIN docs :
                  /\ i \notin PassingAt(docs, req[p])
                  /\ i < KthOf(PassingAt(docs, req[p]), req[p].limit)

\* the fetched candidates outside the three lists the request read, in
\* pool order
FreshCandidates(r) ==
    LET Outside(jk) == /\ jk.joke_id \notin Range(r.snap.favorites)
                       /\ jk.joke_id \notin Range(r.snap.like_history)
                       /\ jk.joke_id \notin Range(r.snap.dislike_history)
    IN  SelectSeq(r.all_jokes, Outside)

\* the identifiers the request read from joke_jar and creation_history only
JarOrCreatedOnly(r) ==
    (Range(r.snap.joke_jar) \cup Range(r.snap.creation_history))
        \ (Range(r.snap.favorites) \cup Range(r.snap.like_history)
             \cup Range(r.snap.dislike_history))

\* C30: remaining_jokes is exactly the fetched candidates whose identifier
\* is outside favorites, like_history and dislike_history; a candidate that
\* is only in joke_jar or creation_history stays in it, and the response of
\* the store-serving branches is drawn from it (the fallback returns its
\* first 10 jokes).
C30_RemainingIgnoresJokeJar ==
    \A p \in Procs : FeedDecided(p) =>
        LET r == req[p]
            remaining == remaining_jokes(r.all_jokes, r.snap)
        IN  /\ remaining = FreshCandidates(r)
            /\ \A i \in DOMAIN r.all_jokes :
                  r.all_jokes[i].joke_id \in JarOrCreatedOnly(r)
                      => r.all_jokes[i] \in Range(remaining)
            /\ (r.resp.path = "fallback" /\ r.resp.status = 200)
                  => r.resp.jokes = Slice(FreshCandidates(r), FallbackCap)
            /\ r.resp.path = "direct"
                  => \A i \in DOMAIN r.resp.jokes :
                        \/ i = r.resp.likedIdx
                        \/ r.resp.jokes[i] \in Range(FreshCandidates(r))

\* C30 witness: a response holds a joke of the user's joke_jar and a joke of
\* the user's creation_history
C30_Witness ==
    \E p \in Procs :
        /\ FeedDecided(p)
        /\ req[p].resp.status = 200
        /\ \E i, k \in DOMAIN req[p].resp.jokes :
              /\ req[p].resp.jokes[i].joke_id \in Range(req[p].snap.joke_jar)
              /\ req[p].resp.jokes[k].joke_id \in Range(req[p].snap.creation_history)

\* request p acts in this step
Acts(p) == req'[p] # req[p]

\* the operations on a user's lists that name a joke
JokeNamingOps == {"favorite", "unfavorite", "like", "dislike", "delete_created"}

\* C31: a favorite, unfavorite, like, dislike or delete of a created joke
\* by the authenticated owner that names an identifier the store does not
\* hold ends with 404 in its first step, and no step of it changes a user
\* document, a metadata counter or starts a counter update; an audio
\* request for such an identifier ends with 404 and never calls the
\* synthesis provider.
C31_AbsentJokeNotFound ==
    [][\A p \in Procs :
          (Acts(p) /\ req'[p].joke \notin DOMAIN jokes) =>
              /\ req'[p].op \in JokeNamingOps =>
                    /\ req'[p].pc = "done" /\ req'[p].resp.status = 404
                    /\ users' = users /\ metadata' = metadata
                    /\ threads' = threads
              /\ req'[p].op = "audio" =>
                    /\ req'[p].pc \in {"get_joke", "done"}
                    /\ req'[p].pc = "done" => req'[p].resp.status = 404
                    /\ req'[p].genCalls = 0
                    /\ tasks' = tasks /\ bucket' = bucket]_vars

\* C31 witness: a like and an audio request for the absent identifier have
\* both ended with 404, the audio request without a synthesis call
C31_Witness ==
    \E p, q \in Procs :
        /\ req[p].op = "like" /\ req[p].joke = AbsentJoke
        /\ req[p].pc = "done" /\ req[p].resp.status = 404
        /\ req[q].op = "audio" /\ req[q].joke = AbsentJoke
        /\ req[q].pc = "done" /\ req[q].resp.status = 404
        /\ req[q].genCalls = 0

\* the user document fields other than field f are the same in both
SameExcept(d, e, f) ==
    \A g \in (DOMAIN d) \ {f} : d[g] = e[g]

\* C32: no step removes a joke document from the store, and a step of an
\* unfavorite or of a delete of a created joke leaves every joke document
\* as it is: its write changes one list of the user document only, and the
\* identifier is not in that list afterwards.
C32_JokesNeverDeleted ==
    [][/\ DOMAIN jokes \subseteq DOMAIN jokes'
       /\ \A p \in Procs :
            (Acts(p) /\ req'[p].op \in {"unfavorite", "delete_created"}) =>
                LET r == req'[p]
                    f == IF r.op = "unfavorite" THEN "favorites"
                         ELSE "creation_history"
                IN  /\ jokes' = jokes
                    /\ \A u \in Users :
                         /\ u # r.user => users'[u] = users[u]
                         /\ SameExcept(users'[u], users[u], f)
                    /\ users' # users =>
                         r.joke \notin Range(users'[r.user][f])]_vars

\* C32 witness: a joke the user created has been deleted from the user's
\* list with success, and its document is still in the store
C32_Witness ==
    \E p \in Procs :
        /\ req[p].op = "delete_created" /\ req[p].pc = "done"
        /\ req[p].resp.success /\ req[p].joke \in DOMAIN jokes
        /\ req[p].joke \notin Range(users[req[p].user].creation_history)

\* the persistence tasks of joke j that have run to their end
PersistedFor(j) ==
    {t \in DOMAIN tasks : /\ tasks[t].fn = "save_audio_url_async"
                          /\ tasks[t].joke_id = j
                          /\ tasks[t].pc = "finished"}

\* C33: an audio request that starts after the persistence task of an
\* earlier generated answer for the same joke has finished ends in its
\* first step with 200 and the URL the earlier request returned, without a
\* call of the synthesis provider and without a further task.
C33_CachedAfterPersistence ==
    [][\A p \in Procs :
          (/\ req[p].op = "idle" /\ req'[p].op = "audio"
           /\ PersistedFor(req'[p].joke) # {}) =>
              /\ req'[p].pc = "done"
              /\ req'[p].resp.status = 200
              /\ req'[p].resp.path = "cached"
              /\ req'[p].genCalls = 0
              /\ tasks' = tasks
              /\ \A t \in PersistedFor(req'[p].joke) :
                    /\ req[tasks[t].owner].resp.path = "generated"
                    /\ req'[p].resp.audio_url = req[tasks[t].owner].resp.audio_url]_vars

\* C33 witness: a request has been answered from the stored URL after the
\* task of a generated answer for the same joke had finished
C33_Witness ==
    \E p, q \in Procs :
        /\ p # q
        /\ req[p].op = "audio" /\ req[p].resp.path = "generated"
        /\ req[q].op = "audio" /\ req[q].resp.path = "cached"
        /\ req[q].joke = req[p].joke
        /\ PersistedFor(req[p].joke) # {}
        /\ req[q].resp.audio_url = req[p].resp.audio_url

\* the requests on the lists of the user named in the path
OwnerOps == JokeNamingOps \cup ReadOps

\* C34: a favorite, unfavorite, like, dislike, delete of a created joke or
\* read of a list that reaches the store was made with the credential of
\* the user in the path; made with another user's credential or with none
\* it ends in its first step with 401 or 403, returns no joke, and no user
\* document, joke document, counter or counter thread changes.
C34_OwnerOnly ==
    [][\A p \in Procs :
          (Acts(p) /\ req'[p].op \in OwnerOps) =>
              IF req'[p].cred = req'[p].user
              THEN req'[p].resp.status \notin {401, 403}
              ELSE /\ req[p].op = "idle"
                   /\ req'[p].pc = "done"
                   /\ req'[p].resp.status \in {401, 403}
                   /\ req'[p].resp.jokes = <<>>
                   /\ ~req'[p].resp.success
                   /\ users' = users /\ jokes' = jokes
                   /\ metadata' = metadata /\ threads' = threads]_vars

\* C34 witness: the owner's read of the favorites returned a joke and the
\* same read with another user's credential was refused with 403
C34_Witness ==
    \E p, q \in Procs :
        /\ req[p].op = "get_favorites" /\ req[p].cred = req[p].user
        /\ req[p].pc = "done" /\ req[p].resp.status = 200
        /\ req[p].resp.jokes # <<>>
        /\ req[q].op = "get_favorites" /\ req[q].user = req[p].user
        /\ req[q].cred \in Principals \ {req[q].user}
        /\ req[q].pc = "done" /\ req[q].resp.status = 403

\* C35: a get_jokes response computed from the lists of a user document (a
\* non-empty exclusion set and a liked joke drawn from the like_history) is
\* delivered only to a caller whose credential is that user's.
C35_PersonalisedOnlyToOwner ==
    \A p \in Procs :
        (/\ req[p].op = "get_jokes" /\ req[p].pc = "done"
         /\ req[p].resp.status = 200
         /\ req[p].snap.exists
         /\ ReadExcluded(req[p]) # {}
         /\ req[p].liked_jokes # <<>>)
            => req[p].cred = req[p].user

\* C36: a voice registration that found no user document stores the voice
\* document, creates the user document with voices = [voice_id], and ends
\* with a success, as it does when the user document exists.
C36_VoiceForNewUserSucceeds ==
    \A p \in Procs :
        (/\ req[p].op = "create_voice" /\ req[p].pc = "done"
         /\ req[p].cred = req[p].user
         /\ ~req[p].snap.exists)
            => /\ \E v \in voices : v.voice_id = req[p].joke
               /\ users[req[p].user].exists
               /\ req[p].joke \in Range(users[req[p].user].voices)
               /\ req[p].resp.status = 200
               /\ req[p].resp.success

====
